---- MODULE Spec2Model ----
(***************************************************************************)
(* Model of the LinkedIn screener server (src/src/server.ts, the second,   *)
(* later copy of the server in that file: lines 569-1342) and of the       *)
(* command-line screener (src/unnamed/part_001).                           *)
(*                                                                         *)
(* Strings are TLA+ strings handled character by character (Len, SubSeq    *)
(* and \o on strings).  A JavaScript value that may be null or undefined   *)
(* is Null (the empty tuple) or Just(v) (the one-element tuple <<v>>).     *)
(***************************************************************************)
EXTENDS Integers, Sequences, FiniteSets, TLC

VARIABLES
    source,                 \* "exa" (getProfileWithExa) or "linkedin" (POST /screen, li_at path)
    allEducation,           \* the parsed Education[] before filtering (education / allEducation)
    education,              \* the education list of the response (filteredEducation / education)
    eduDone,                \* TRUE once the filter-and-sort statements have run
    expBlocks,              \* Exa path: the experience blocks (expBlocks)
    positions,              \* LinkedIn path: the positions of the profile (positions)
    idx,                    \* number of loop iterations done (blocks or positions consumed)
    experiences,            \* the experiences list of the response
    currentCompany,         \* current_company.name
    currentPositionStart,   \* current_company.position_start
    currentCompanyUniversalName, \* LinkedIn path: key of the company lookup
    blockEntry,             \* history: per consumed block/position, index of its entry in experiences, or 0
    doc,                    \* Exa path: the pieces content.text is made of (Null: lists given directly)
    text,                   \* Exa path: content.text
    textDone,               \* TRUE once the text has been split into education entries and blocks
    config,                 \* [exa, liAt]: EXA_API_KEY && exaClient, LI_AT_ENV are set
    url,                    \* req.body?.url ?? '' of the request being handled
    currentYear,            \* new Date().getFullYear()
    pc,                     \* position of the /screen handler ("idle": no request modelled)
    calls,                  \* the external calls of the request, in order: [call, result]
    sessionCache,           \* sessionCache: the client held for each cookie value that has one
    companyData,            \* what getCompanyDetails returned (Null before the call)
    details,                \* companyFounded, companySize, companyIndustry, companyAge
    response,               \* Null, or the response sent: [status, body]
    now,                    \* the time, in ms since the server started
    totalHits,              \* the limiter's count of requests per client IP in its window
    resetTime,              \* per client IP, Null or the time the limiter's window ends
    passed,                 \* per client IP, the requests of the window that reached the handler
    verdict,                \* what the limiter did with the last request: "none", "next", "429"
    watch,                  \* a one-minute period of one IP and the requests that reached
                            \* the handler in it: [ip, start, reached]
    clients,                \* the number of clients axios.create has made in buildSession
    sessions,               \* concurrent buildSession calls: per call [pc, client, answer]
    validations,            \* the GET /voyager/api/me requests those calls have sent
    argv,                   \* CLI: process.argv[2], Null when missing
    env,                    \* CLI: LINKEDIN_USER, LINKEDIN_PASS, CRUNCHBASE_API_KEY of process.env
    cliPc,                  \* CLI: position of main ("idle": no run modelled)
    execs,                  \* CLI: the execSync calls of the run, in order: [cmd, outcome]
    fetched,                \* CLI: Null, or what fetchProfile returned
    shown,                  \* CLI: Null, or what the Founded line shows
    exitCode                \* CLI: Null while main runs, then the exit status

eduVars == <<allEducation, education, eduDone>>
expVars == <<expBlocks, positions, idx, experiences, currentCompany, currentPositionStart,
            currentCompanyUniversalName, blockEntry>>
textVars == <<doc, text, textDone>>
\* the variables of the request handler around the parsing statements
reqVars == <<config, url, currentYear, pc, calls, sessionCache, companyData, details, response>>
\* the variables the education and experience statements leave alone
\* the variables of the rate limiter in front of /screen
limVars == <<now, totalHits, resetTime, passed, verdict, watch>>
\* the variables of buildSession and its concurrent calls
sessVars == <<clients, sessions, validations>>
\* the variables of the command-line screener
cliVars == <<argv, env, cliPc, execs, fetched, shown, exitCode>>
restVars == <<textVars, reqVars, limVars, sessVars, cliVars>>
vars == <<source, allEducation, education, eduDone, expBlocks, positions, idx,
          experiences, currentCompany, currentPositionStart, currentCompanyUniversalName,
          blockEntry, doc, text, textDone, config, url, currentYear, pc, calls, sessionCache,
          companyData, details, response, now, totalHits, resetTime, passed, verdict, watch,
          clients, sessions, validations,
          argv, env, cliPc, execs, fetched, shown, exitCode>>

-----------------------------------------------------------------------------
(* Bounds of the model *)

MaxEdu == 3
MaxBlocks == 3
MaxPositions == 3
MaxEduLines == 2
MaxProfilePositions == 2
TicksPerWindow == 2
MaxTicks == 3
MaxRejected == 2
MaxSessions == 3

-----------------------------------------------------------------------------
(* JavaScript values *)

Null == <<>>
Just(v) == <<v>>
\* x ?? d
Coalesce(x, d) == IF x = Null THEN d ELSE x
\* (s || '') for a string-or-null s
OrEmpty(s) == IF s = Null THEN "" ELSE s[1]

\* companyFounded, companySize, companyIndustry and companyAge as declared
NoDetails == [founded |-> Null, size |-> Null, industry |-> Null, age |-> Null]

\* new Map(): no key
EmptyMap == [k \in {} |-> Null]
\* map.set(k, v)
MapSet(map, k, v) == [x \in DOMAIN map \cup {k} |-> IF x = k THEN v ELSE map[x]]

\* no concurrent buildSession calls are modelled
SessIdle ==
    /\ clients = 0
    /\ sessions = <<>>
    /\ validations = 0

\* no run of the command-line screener is modelled
CliIdle ==
    /\ argv = Null
    /\ env = [LINKEDIN_USER |-> Null, LINKEDIN_PASS |-> Null, CRUNCHBASE_API_KEY |-> Null]
    /\ cliPc = "idle"
    /\ execs = <<>>
    /\ fetched = Null
    /\ shown = Null
    /\ exitCode = Null

\* no request is modelled: the parsing statements run on their own
ReqIdle ==
    /\ config = [exa |-> FALSE, liAt |-> FALSE]
    /\ url = ""
    /\ currentYear = 0
    /\ pc = "idle"
    /\ calls = <<>>
    /\ sessionCache = EmptyMap
    /\ companyData = Null
    /\ details = NoDetails
    /\ response = Null
    /\ SessIdle
    /\ CliIdle

\* the client IPs of the requests
IpSet == {"10.0.0.1", "10.0.0.2"}

\* no request has reached the limiter
LimIdle ==
    /\ now = 0
    /\ totalHits = [ip \in IpSet |-> 0]
    /\ resetTime = [ip \in IpSet |-> Null]
    /\ passed = [ip \in IpSet |-> 0]
    /\ verdict = "none"
    /\ watch = Null

\* the education list and the experience blocks are given directly: no text to split
RestIdle ==
    /\ doc = Null
    /\ text = ""
    /\ textDone = TRUE
    /\ ReqIdle
    /\ LimIdle

-----------------------------------------------------------------------------
(* String primitives: String.prototype.includes / startsWith / indexOf /   *)
(* toLowerCase / trim / split, and the character classes of the regexes.   *)

\* s.substring(i - 1, j): the characters i..j of s that exist
Slice(s, i, j) ==
    LET lo == IF i < 1 THEN 1 ELSE i
        hi == IF j > Len(s) THEN Len(s) ELSE j
    IN  IF lo > hi THEN "" ELSE SubSeq(s, lo, hi)

\* the character at i, "" outside the string
Char(s, i) == Slice(s, i, i)

StartsWithAt(s, i, kw) ==
    /\ i >= 1
    /\ i + Len(kw) - 1 <= Len(s)
    /\ SubSeq(s, i, i + Len(kw) - 1) = kw

Includes(s, kw) == \E i \in 1..(Len(s) - Len(kw) + 1) : SubSeq(s, i, i + Len(kw) - 1) = kw

\* first index of kw in s at or after from, 0 when there is none
IndexOfFrom(s, kw, from) ==
    LET hits == {i \in from..(Len(s) - Len(kw) + 1) : SubSeq(s, i, i + Len(kw) - 1) = kw}
    IN  IF hits = {} THEN 0 ELSE CHOOSE i \in hits : \A j \in hits : i <= j

UpperChars == "ABCDEFGHIJKLMNOPQRSTUVWXYZ"
LowerChars == "abcdefghijklmnopqrstuvwxyz"
DigitChars == "0123456789"

IsUpper(c) == Len(c) = 1 /\ Includes(UpperChars, c)
IsLower(c) == Len(c) = 1 /\ Includes(LowerChars, c)
IsDigit(c) == Len(c) = 1 /\ Includes(DigitChars, c)
\* \s of the regexes, over the characters the inputs use
IsSpace(c) == c = " " \/ c = "\n" \/ c = "\t"

RECURSIVE ToLowerCase(_)
ToLowerCase(s) ==
    IF Len(s) = 0 THEN ""
    ELSE LET c == Char(s, 1)
             k == IndexOfFrom(UpperChars, c, 1)
         IN  (IF k = 0 THEN c ELSE Char(LowerChars, k)) \o ToLowerCase(SubSeq(s, 2, Len(s)))

\* The character U+2014 (em dash), which a TLA+ string cannot hold, is written "~".
EmDash == "~"

-----------------------------------------------------------------------------
(* Education inputs.  An Education is [school, degree]; field, start and   *)
(* end take no part in the filter or the sort.                             *)

\* interface Education
EduAt(school, degree, field, start, end) ==
    [school |-> school, degree |-> degree, field |-> field, start |-> start, end |-> end]
\* an entry without field and years, as the text path pushes them
Edu(school, degree) == EduAt(school, degree, Null, Null, Null)

\* entries either path can hold
EduCommon == {
    Edu(Just("MIT"), Just("PhD in Physics")),
    Edu(Just("Stanford University"), Just("MBA")),
    Edu(Just("NUS"), Just("Bachelor of Arts")),
    Edu(Just("UCLA"), Just("Bachelor of Science in Mathematics")),
    Edu(Just("Ngee Ann Polytechnic"), Just("Diploma in Nursing")),
    Edu(Just("De Anza College"), Just("Associate of Science")),
    Edu(Just("Coursera"), Just("Certificate")),
    Edu(Just("Raffles Institution"), Just("A-Level")),
    Edu(Just("Lincoln High School"), Just("General Studies")),
    Edu(Just("UWC South East Asia"), Just("IB Diploma")),
    Edu(Just("NUS"), Just("NOC Silicon Valley")) }

\* the LinkedIn mapping also yields a null school and the placeholder degree
EduLinkedIn == EduCommon \cup { Edu(Null, Just(EmDash)) }

EduSet(src) == IF src = "exa" THEN EduCommon ELSE EduLinkedIn

\* entries that only the education lines of a text yield
EduText == { Edu(Just("NUS and Yale at Large"), Just("Diploma, Data Science")) }

\* entries that only the mapping of the LinkedIn educations yields
EduMapped == {
    EduAt(Just("Stanford University"), Just("MBA"), Null, Just(2020), Just(2022)),
    EduAt(Just("MIT"), Just("PhD, Physics"), Just("Physics"), Just(2010), Just(2014)),
    EduAt(Just("MIT"), Just("PhD in Physics"), Just("PhD in Physics"), Null, Null),
    EduAt(Just("Lincoln High School"), Just(EmDash), Null, Just(2004), Just(2008)),
    EduAt(Just("NUS"), Just("Computer Science"), Just("Computer Science"), Null, Null) }

-----------------------------------------------------------------------------
(* Education: high-school classifier, degree rank, filter and sort *)

\* isHighSchool of the LinkedIn path
isHighSchool(edu) ==
    LET schoolName == ToLowerCase(OrEmpty(edu.school))
        degreeName == ToLowerCase(OrEmpty(edu.degree))
    IN  IF \/ Includes(schoolName, "high school")
           \/ Includes(schoolName, "secondary school")
           \/ Includes(schoolName, "preparatory")
           \/ Includes(schoolName, "prep school")
           \/ Includes(schoolName, "uwc ")
           \/ Includes(schoolName, "uwc south")
           \/ Includes(schoolName, "uwc east")
           \/ Includes(schoolName, "international school")
           \/ Includes(schoolName, "sixth form")
           \/ Includes(schoolName, "college preparatory")
        THEN TRUE
        ELSE IF \/ Includes(degreeName, "high school")
                \/ Includes(degreeName, "ib diploma")
                \/ Includes(degreeName, "international baccalaureate")
                \/ Includes(degreeName, "a-level")
                \/ Includes(degreeName, "a level")
                \/ Includes(degreeName, "gcse")
                \/ Includes(degreeName, "o-level")
                \/ Includes(degreeName, "cbse")
                \/ Includes(degreeName, "icse")
                \/ Includes(degreeName, "grade 12")
                \/ Includes(degreeName, "secondary education")
                \/ degreeName = EmDash
                \/ degreeName = ""
        THEN TRUE
        ELSE FALSE

\* isHighSchool of the Exa path
isHighSchoolExa(edu) ==
    LET schoolName == ToLowerCase(OrEmpty(edu.school))
        degreeName == ToLowerCase(OrEmpty(edu.degree))
    IN  IF \/ Includes(schoolName, "high school")
           \/ Includes(schoolName, "secondary school")
           \/ Includes(schoolName, "preparatory")
           \/ Includes(schoolName, "prep school")
           \/ Includes(schoolName, "uwc ")
           \/ Includes(schoolName, "uwc south")
           \/ Includes(schoolName, "uwc east")
           \/ Includes(schoolName, "international school")
           \/ Includes(schoolName, "sixth form")
           \/ Includes(schoolName, "college preparatory")
        THEN TRUE
        ELSE IF \/ Includes(degreeName, "high school")
                \/ Includes(degreeName, "ib diploma")
                \/ Includes(degreeName, "international baccalaureate")
                \/ Includes(degreeName, "a-level")
                \/ Includes(degreeName, "a level")
                \/ Includes(degreeName, "gcse")
                \/ Includes(degreeName, "o-level")
                \/ Includes(degreeName, "cbse")
                \/ Includes(degreeName, "icse")
                \/ Includes(degreeName, "grade 12")
                \/ Includes(degreeName, "secondary education")
                \/ Includes(degreeName, "noc ")
                \/ Includes(degreeName, "batch ")
                \/ degreeName = EmDash
                \/ degreeName = ""
        THEN TRUE
        ELSE FALSE

\* the keyword cascade shared by both copies of getEducationRank; hs is isHighSchool(edu)
RankByKeyword(edu, hs) ==
    LET degreeName == ToLowerCase(OrEmpty(edu.degree))
    IN  IF Includes(degreeName, "phd") \/ Includes(degreeName, "ph.d")
           \/ Includes(degreeName, "doctorate") THEN 5
        ELSE IF Includes(degreeName, "master") \/ Includes(degreeName, "mba")
           \/ Includes(degreeName, "ms") \/ Includes(degreeName, "ma") THEN 4
        ELSE IF Includes(degreeName, "bachelor") \/ Includes(degreeName, "bs")
           \/ Includes(degreeName, "ba") \/ Includes(degreeName, "b.tech")
           \/ Includes(degreeName, "btech") THEN 3
        ELSE IF Includes(degreeName, "associate") \/ Includes(degreeName, "diploma") THEN 2
        ELSE IF hs THEN 0
        ELSE 1

\* getEducationRank of the LinkedIn path
getEducationRank(edu) == RankByKeyword(edu, isHighSchool(edu))

\* getEducationRank of the Exa path
getEducationRankExa(edu) == RankByKeyword(edu, isHighSchoolExa(edu))

\* The classifier and the rank function in scope at each call site.  Both are
\* pure functions of the entry, so each is evaluated once per entry of the
\* input universe (EduLinkedIn, defined below) and looked up afterwards.
HighSchoolTable ==
    [edu \in EduLinkedIn \cup EduText \cup EduMapped |->
        [exa |-> isHighSchoolExa(edu), linkedin |-> isHighSchool(edu)]]
RankTable ==
    [edu \in EduLinkedIn \cup EduText \cup EduMapped |->
        [exa |-> getEducationRankExa(edu), linkedin |-> getEducationRank(edu)]]

isHighSchoolOf(src, edu) ==
    IF src = "exa" THEN HighSchoolTable[edu].exa ELSE HighSchoolTable[edu].linkedin
getEducationRankOf(src, edu) ==
    IF src = "exa" THEN RankTable[edu].exa ELSE RankTable[edu].linkedin

\* a comparator that sorts ascending: getEducationRank(a) - getEducationRank(b)
compareEducationAscending(src, a, b) == getEducationRankOf(src, a) - getEducationRankOf(src, b)

\* a comparator that never reports a tie: rank(b) > rank(a) ? 1 : -1
compareEducationNoTie(src, a, b) ==
    IF getEducationRankOf(src, b) > getEducationRankOf(src, a) THEN 1 ELSE 0 - 1

\* the comparator (a, b) => getEducationRank(b) - getEducationRank(a)
compareEducation(src, a, b) == getEducationRankOf(src, b) - getEducationRankOf(src, a)

\* Array.prototype.sort is stable: x goes before the first element that the
\* comparator orders after it, behind every element it ties with.
InsertSorted(src, sorted, x) ==
    LET later == {i \in 1..Len(sorted) : compareEducation(src, x, sorted[i]) < 0}
    IN  IF later = {} THEN Append(sorted, x)
        ELSE LET k == CHOOSE i \in later : \A j \in later : i <= j
             IN  SubSeq(sorted, 1, k - 1) \o <<x>> \o SubSeq(sorted, k, Len(sorted))

RECURSIVE SortEducation(_, _)
SortEducation(src, list) ==
    IF Len(list) = 0 THEN <<>>
    ELSE InsertSorted(src, SortEducation(src, SubSeq(list, 1, Len(list) - 1)), list[Len(list)])

\* collegeEducation = education.filter(edu => !isHighSchool(edu))
collegeEducation(src, all) == SelectSeq(all, LAMBDA edu : ~isHighSchoolOf(src, edu))

\* the selection with the length test off by one: collegeEducation.length > 1
filteredEducationOffByOne(src, all) ==
    IF Len(collegeEducation(src, all)) > 1 THEN collegeEducation(src, all) ELSE all

\* collegeEducation.length > 0 ? collegeEducation : allEducation
filteredEducation(src, all) ==
    IF Len(collegeEducation(src, all)) > 0 THEN collegeEducation(src, all) ELSE all

\* the filter followed by the in-place sort
FilterAndRank(src, all) == SortEducation(src, filteredEducation(src, all))

-----------------------------------------------------------------------------
RECURSIVE SeqsUpTo(_, _)
\* all sequences over S of length at most n
SeqsUpTo(S, n) ==
    IF n = 0 THEN {<<>>}
    ELSE LET shorter == SeqsUpTo(S, n - 1)
         IN  shorter \cup {Append(q, x) : q \in {r \in shorter : Len(r) = n - 1}, x \in S}

-----------------------------------------------------------------------------
(* Education specification: the filter-and-sort statements of each path *)

InitEducation ==
    /\ source \in {"exa", "linkedin"}
    /\ allEducation \in SeqsUpTo(EduSet(source), MaxEdu)
    /\ education = <<>>
    /\ eduDone = FALSE
    /\ expBlocks = <<>>
    /\ positions = <<>>
    /\ idx = 0
    /\ experiences = <<>>
    /\ currentCompany = Null
    /\ currentPositionStart = Null
    /\ currentCompanyUniversalName = Null
    /\ blockEntry = <<>>
    /\ RestIdle

\* getProfileWithExa: collegeEducation / filteredEducation / filteredEducation.sort
ExaFilterEducation ==
    /\ source = "exa"
    /\ textDone
    /\ ~eduDone
    /\ education' = FilterAndRank("exa", allEducation)
    /\ eduDone' = TRUE
    /\ UNCHANGED <<source, allEducation>>
    /\ UNCHANGED expVars
    /\ UNCHANGED restVars

\* POST /screen: collegeEducation / education / education.sort
ScreenFilterEducation ==
    /\ source = "linkedin"
    /\ ~eduDone
    /\ education' = FilterAndRank("linkedin", allEducation)
    /\ eduDone' = TRUE
    /\ UNCHANGED <<source, allEducation>>
    /\ UNCHANGED expVars
    /\ UNCHANGED restVars

NextEducation == ExaFilterEducation \/ ScreenFilterEducation

SpecEducation == InitEducation /\ [][NextEducation]_vars

-----------------------------------------------------------------------------
(* Claims about the education filter and ranker (SpecEducation) *)

Range(seq) == {seq[i] : i \in DOMAIN seq}
Count(seq, x) == Cardinality({i \in DOMAIN seq : seq[i] = x})
\* the two lists hold the same entries with the same multiplicities
SameEntries(a, b) == \A x \in Range(a) \cup Range(b) : Count(a, x) = Count(b, x)

\* C1: if some input entry is not high-school-equivalent, the output holds
\* exactly the non-high-school entries (with multiplicity, no high-school
\* entry); otherwise it holds exactly all input entries.
C1_FilterExact ==
    eduDone =>
        LET hs(e) == isHighSchoolOf(source, e)
        IN  IF \E i \in DOMAIN allEducation : ~hs(allEducation[i])
            THEN /\ SameEntries(education, SelectSeq(allEducation, LAMBDA e : ~hs(e)))
                 /\ \A i \in DOMAIN education : ~hs(education[i])
            ELSE SameEntries(education, allEducation)

\* a mixed input: a high-school entry was discarded and a college entry kept
C1_Witness ==
    /\ eduDone
    /\ \E i \in DOMAIN allEducation : isHighSchoolOf(source, allEducation[i])
    /\ \E i \in DOMAIN allEducation : ~isHighSchoolOf(source, allEducation[i])
    /\ Len(education) < Len(allEducation)
    /\ Len(education) >= 2

\* C2: the ranks of the output are non-increasing, and entries of equal rank
\* keep the relative order they have in the input list.
C2_SortedStable ==
    eduDone =>
        LET rank(e) == getEducationRankOf(source, e)
        IN  /\ \A i, j \in DOMAIN education : i < j => rank(education[i]) >= rank(education[j])
            /\ \A r \in 0..5 :
                   SelectSeq(education, LAMBDA e : rank(e) = r)
                     = SelectSeq(allEducation, LAMBDA e : rank(e) = r /\ e \in Range(education))

\* the sort moved an entry, and two different entries tie
C2_Witness ==
    /\ eduDone
    /\ Len(education) = Len(allEducation)
    /\ education # allEducation
    /\ \E i, j \in DOMAIN education :
          /\ i < j
          /\ education[i] # education[j]
          /\ getEducationRankOf(source, education[i]) = getEducationRankOf(source, education[j])

\* the degree level of an entry as the specification words it
DegreeLevel(edu) ==
    LET degreeName == ToLowerCase(OrEmpty(edu.degree))
    IN  IF Includes(degreeName, "phd") \/ Includes(degreeName, "ph.d")
           \/ Includes(degreeName, "doctorate") THEN 5
        ELSE IF Includes(degreeName, "master") \/ Includes(degreeName, "mba") THEN 4
        ELSE IF Includes(degreeName, "bachelor") THEN 3
        ELSE IF Includes(degreeName, "associate") \/ Includes(degreeName, "diploma") THEN 2
        ELSE 1
DegreeLevelTable == [edu \in EduLinkedIn |-> DegreeLevel(edu)]

\* C3: in the output a doctorate precedes every master's entry, a master's
\* every bachelor's, a bachelor's every associate/diploma entry, and an
\* associate/diploma entry every entry of unknown level.
C3_LevelOrder ==
    eduDone =>
        \A i, j \in DOMAIN education :
            DegreeLevelTable[education[i]] > DegreeLevelTable[education[j]] => i < j

\* C4: getEducationRank is 0 for a high-school-equivalent entry and otherwise
\* 5 / 4 / 3 / 2 / 1 for doctorate / master, MBA / bachelor / associate,
\* diploma / none of these.
C4_RankValues ==
    eduDone =>
        \A i \in DOMAIN education :
            getEducationRankOf(source, education[i])
              = IF isHighSchoolOf(source, education[i]) THEN 0
                ELSE DegreeLevelTable[education[i]]

\* C5: applying the filter-and-rank step to its own output returns the same
\* list in the same order.
C5_Idempotent ==
    eduDone => FilterAndRank(source, education) = education

\* an output the sort had to reorder, holding different entries that tie
C5_Witness ==
    /\ eduDone
    /\ Len(education) >= 2
    /\ education # filteredEducation(source, allEducation)
    /\ \E i, j \in DOMAIN education :
          /\ i < j
          /\ education[i] # education[j]
          /\ getEducationRankOf(source, education[i]) = getEducationRankOf(source, education[j])

-----------------------------------------------------------------------------
(* More string primitives, for the free-text experience parser *)

Min(S) == CHOOSE i \in S : \A j \in S : i <= j
Max(S) == CHOOSE i \in S : \A j \in S : i >= j
\* the least element of a set of positions, 0 when there is none
MinOrZero(S) == IF S = {} THEN 0 ELSE Min(S)

\* s with the blanks before first and after last removed
TrimTo(s, solid) == IF solid = {} THEN "" ELSE Slice(s, Min(solid), Max(solid))
\* String.prototype.trim
Trim(s) == TrimTo(s, {i \in 1..Len(s) : ~IsSpace(Char(s, i))})

RECURSIVE SplitLines(_)
SplitAt(s, k) ==
    IF k = 0 THEN <<s>> ELSE <<Slice(s, 1, k - 1)>> \o SplitLines(Slice(s, k + 1, Len(s)))
\* s.split('\n')
SplitLines(s) == SplitAt(s, IndexOfFrom(s, "\n", 1))

RECURSIVE ReplaceAll(_, _, _)
ReplaceAt(s, lit, by, k) ==
    IF k = 0 THEN s
    ELSE Slice(s, 1, k - 1) \o by \o ReplaceAll(Slice(s, k + Len(lit), Len(s)), lit, by)
\* s.replace(/lit/g, by) for a literal lit
ReplaceAll(s, lit, by) == ReplaceAt(s, lit, by, IndexOfFrom(s, lit, 1))

RECURSIVE ParseInt(_)
\* parseInt(digits, 10) for a string of decimal digits
ParseInt(digits) ==
    IF Len(digits) = 0 THEN 0
    ELSE 10 * ParseInt(Slice(digits, 1, Len(digits) - 1))
           + (IndexOfFrom(DigitChars, Char(digits, Len(digits)), 1) - 1)

\* [^(\n]
NotParenOrNewline(c) == Len(c) = 1 /\ c # "(" /\ c # "\n"

-----------------------------------------------------------------------------
(* The regular expressions of the experience loop, as scanners.  A scanner *)
(* takes the position i the match has reached (0: the match has failed)    *)
(* and returns the position after its piece of the pattern, or 0.  The     *)
(* greedy pieces below are each followed by a character outside their own  *)
(* class, so the regex engine's backtracking never shortens them; the one  *)
(* exception, the blanks before ([^(\n]+), is handled in SimpleStart.      *)

\* a literal
Lit(s, i, lit) == IF i = 0 \/ ~StartsWithAt(s, i, lit) THEN 0 ELSE i + Len(lit)

\* \s+
Spaces1(s, i) ==
    IF i = 0 \/ ~IsSpace(Char(s, i)) THEN 0
    ELSE Min({j \in i..(Len(s) + 1) : ~IsSpace(Char(s, j))})

\* \s*
Spaces0(s, i) ==
    IF i = 0 THEN 0 ELSE Min({j \in i..(Len(s) + 1) : ~IsSpace(Char(s, j))})

\* [A-Z]
Upper1(s, i) == IF i = 0 \/ ~IsUpper(Char(s, i)) THEN 0 ELSE i + 1

\* [a-z]+
Lowers1(s, i) ==
    IF i = 0 \/ ~IsLower(Char(s, i)) THEN 0
    ELSE Min({j \in i..(Len(s) + 1) : ~IsLower(Char(s, j))})

\* \d{4}
Digits4(s, i) ==
    IF i = 0 \/ \E j \in i..(i + 3) : ~IsDigit(Char(s, j)) THEN 0 ELSE i + 4

\* [^(\n]+
NotParens1(s, i) ==
    IF i = 0 \/ ~NotParenOrNewline(Char(s, i)) THEN 0
    ELSE Min({j \in i..(Len(s) + 1) : ~NotParenOrNewline(Char(s, j))})

\* \s+at  tried at q: the position after "at"
AfterAt(s, q) == Lit(s, Spaces1(s, q), "at")

\* \s+at\s+\[  tried at q: the position after "["
BracketOpen(s, q) == Lit(s, Spaces1(s, AfterAt(s, q)), "[")

\* (.+?)\]  from the position b after "[": the position of the closing "]"
CloseAfter(s, b) == IF b = 0 THEN 0 ELSE IndexOfFrom(s, "]", b + 1)

\* \s+at\s+\[(.+?)\]  tried at q: the position of the closing "]", or 0
BracketClose(s, q) == CloseAfter(s, BracketOpen(s, q))

\* the groups of the bracket pattern when (.+?) of the title ends before q
TitleGroups(s, q) ==
    IF q = 0 THEN Null
    ELSE Just([g1 |-> Slice(s, 1, q - 1),
               g2 |-> Slice(s, BracketOpen(s, q), BracketClose(s, q) - 1)])

\* firstLine.match(/(.+?)\s+at\s+\[(.+?)\]/): Null, or the groups [1] and [2].
\* The lazy title takes the least q at which the rest of the pattern matches.
TitleMatch(firstLine) ==
    TitleGroups(firstLine,
                MinOrZero({q \in 2..Len(firstLine) : BracketClose(firstLine, q) # 0}))

\* \s+([^(\n]+) from the position a after "at", n being the position after the
\* blanks: the first index of the company group, or 0.  When the blanks are
\* followed by "(" or by the end of the line, \s+ gives its last blank back
\* to the group, if it has two blanks or more.
SimpleStart(s, a, n) ==
    IF n = 0 THEN 0
    ELSE IF NotParenOrNewline(Char(s, n)) THEN n
    ELSE IF n - 1 > a /\ NotParenOrNewline(Char(s, n - 1)) THEN n - 1
    ELSE 0

SimpleStartAfter(s, a) == SimpleStart(s, a, Spaces1(s, a))

\* \s+at\s+([^(\n]+)  tried at q: the first index of the company group, or 0
SimpleRestAt(s, q) == SimpleStartAfter(s, AfterAt(s, q))

\* the groups of the plain pattern when (.+?) of the title ends before q
SimpleGroups(s, q) ==
    IF q = 0 THEN Null
    ELSE Just([g1 |-> Slice(s, 1, q - 1),
               g2 |-> Slice(s, SimpleRestAt(s, q), NotParens1(s, SimpleRestAt(s, q)) - 1)])

\* firstLine.match(/(.+?)\s+at\s+([^(\n]+)/): Null, or the groups [1] and [2]
SimpleMatch(firstLine) ==
    SimpleGroups(firstLine,
                 MinOrZero({q \in 2..Len(firstLine) : SimpleRestAt(firstLine, q) # 0}))

\* [A-Z][a-z]+  tried at p: the position after the word
WordEnd(s, p) == Lowers1(s, Upper1(s, p))

\* ([A-Z][a-z]+)\s+(\d{4})  tried at p: the position after the year
MonthYear(s, p) == Digits4(s, Spaces1(s, WordEnd(s, p)))

\* ([A-Z][a-z]+)\s+(\d{4})\s*-\s*  tried at p: the position where group 3 starts
DateSep(s, p) == Spaces0(s, Lit(s, Spaces0(s, MonthYear(s, p)), "-"))

\* (Present|([A-Z][a-z]+)\s+(\d{4}))  tried at b: the position after group 3.
\* The Present branch is tried first.
DateEnd(s, b) == IF Lit(s, b, "Present") # 0 THEN Lit(s, b, "Present") ELSE MonthYear(s, b)

\* the groups of a match that starts at p, has group 3 at b..c-1 and group 2 at y-4..y-1
DateGroups(s, p, y, b, c) ==
    [g1   |-> Slice(s, p, WordEnd(s, p) - 1),
     g2   |-> Slice(s, y - 4, y - 1),
     g3   |-> Slice(s, b, c - 1),
     g5   |-> IF Lit(s, b, "Present") # 0 THEN Null ELSE Just(Slice(s, c - 4, c - 1)),
     text |-> Slice(s, p, c - 1)]

\* /([A-Z][a-z]+)\s+(\d{4})\s*-\s*(Present|([A-Z][a-z]+)\s+(\d{4}))/ tried at p:
\* the position after the match, or 0
DateMatchEnd(s, p) == DateEnd(s, DateSep(s, p))

\* the date regex tested on a line (the predicate of lines.find)
DateTest(line) == \E p \in 1..Len(line) : DateMatchEnd(line, p) # 0

DateMatchFrom(line, p) ==
    DateGroups(line, p, MonthYear(line, p), DateSep(line, p), DateMatchEnd(line, p))

\* dateInfo.match(...) of a line that has a match: the leftmost one
DateMatch(line) == DateMatchFrom(line, Min({p \in 1..Len(line) : DateMatchEnd(line, p) # 0}))

-----------------------------------------------------------------------------
(* getProfileWithExa: one iteration of the experience block loop *)

\* !v for a nullable string (null and '' are falsy) and for a nullable number
\* (null and 0 are falsy)
FalsyString(v) == v = Null \/ v = Just("")
FalsyNumber(v) == v = Null \/ v = Just(0)

\* monthMap[startMonth] || undefined
monthMap(startMonth) ==
    CASE startMonth = "Jan" -> Just(1)  [] startMonth = "Feb" -> Just(2)
      [] startMonth = "Mar" -> Just(3)  [] startMonth = "Apr" -> Just(4)
      [] startMonth = "May" -> Just(5)  [] startMonth = "Jun" -> Just(6)
      [] startMonth = "Jul" -> Just(7)  [] startMonth = "Aug" -> Just(8)
      [] startMonth = "Sep" -> Just(9)  [] startMonth = "Oct" -> Just(10)
      [] startMonth = "Nov" -> Just(11) [] startMonth = "Dec" -> Just(12)
      [] OTHER -> Null

\* block.split('\n').filter(l => l.trim())
NonBlankLines(block) == SelectSeq(SplitLines(block), LAMBDA l : Trim(l) # "")

\* TitleAndCompanyOf with the plain pattern tried first
TitleAndCompanyOfPlainFirst(titleMatch, simpleMatch) ==
    IF simpleMatch # Null
    THEN Just([title   |-> Trim(simpleMatch[1].g1),
               company |-> Trim(simpleMatch[1].g2)])
    ELSE IF titleMatch = Null THEN Null
    ELSE Just([title   |-> Trim(titleMatch[1].g1),
               company |-> ReplaceAll(Trim(titleMatch[1].g2), "<web_link>", "")])

\* title and company from the two match results: the bracket pattern first,
\* then the plain one; Null when neither matched (the block is skipped)
TitleAndCompanyOf(titleMatch, simpleMatch) ==
    IF titleMatch # Null
    THEN Just([title   |-> Trim(titleMatch[1].g1),
               company |-> ReplaceAll(Trim(titleMatch[1].g2), "<web_link>", "")])
    ELSE IF simpleMatch = Null THEN Null
    ELSE Just([title   |-> Trim(simpleMatch[1].g1),
               company |-> Trim(simpleMatch[1].g2)])

TitleAndCompany(firstLine) == TitleAndCompanyOf(TitleMatch(firstLine), SimpleMatch(firstLine))

\* const isCurrent = firstLine.includes('(Current)')
isCurrentMarker(firstLine) == Includes(firstLine, "(Current)")

LineOrNull(lines, i) == IF i = 0 THEN Null ELSE Just(lines[i])
\* lines.find(l => dateRegex.test(l)): Null when no line matches
dateInfo(lines) == LineOrNull(lines, MinOrZero({i \in DOMAIN lines : DateTest(lines[i])}))

\* endYearOf reading capture group 2 (the start year) where the code reads group 5
endYearOfStartGroup(dateMatch) ==
    IF dateMatch.g3 = "Present" THEN Null ELSE Just(ParseInt(dateMatch.g2))

\* endInfo === 'Present' ? null : (dateMatch[5] ? parseInt(dateMatch[5], 10) : null)
endYearOf(dateMatch) ==
    IF dateMatch.g3 = "Present" THEN Null
    ELSE IF ~FalsyString(dateMatch.g5) THEN Just(ParseInt(dateMatch.g5[1]))
    ELSE Null

\* isActuallyCurrent with the marker and the date signal AND'd instead of OR'd
isActuallyCurrentAnd(isCurrent, endInfo, endYear) ==
    isCurrent /\ (endInfo = "Present" \/ FalsyNumber(endYear))

\* isCurrent || endInfo === 'Present' || !endYear
isActuallyCurrent(isCurrent, endInfo, endYear) ==
    isCurrent \/ endInfo = "Present" \/ FalsyNumber(endYear)

\* experiences.push({...}) and the candidate for currentPositionStart:
\*   [entry |-> Just(the Experience pushed),
\*    start |-> Just({month: monthMap[startMonth] || undefined, year: startYear})]
PushEntry(tc, isCurrent, dateMatch, startYear, endYear) ==
    [entry |-> Just([company |-> Just(tc.company),
                     title   |-> Just(tc.title),
                     start   |-> Just(startYear),
                     end     |-> endYear,
                     current |-> isActuallyCurrent(isCurrent, dateMatch.g3, endYear)]),
     start |-> Just([month |-> monthMap(dateMatch.g1), year |-> Just(startYear)])]

\* the block is skipped: nothing is pushed
SkipBlock == [entry |-> Null, start |-> Null]

\* the statements after the date line has matched
ParseDated(firstLine, tc, dateMatch) ==
    PushEntry(tc, isCurrentMarker(firstLine), dateMatch, ParseInt(dateMatch.g2),
              endYearOf(dateMatch))

\* the statements after lines.length >= 2 has been established
ParseFirstLine(firstLine, tc, di) ==
    IF tc = Null \/ di = Null THEN SkipBlock ELSE ParseDated(firstLine, tc[1], DateMatch(di[1]))

ParseLines(lines) ==
    IF Len(lines) < 2 THEN SkipBlock
    ELSE ParseFirstLine(lines[1], TitleAndCompany(lines[1]), dateInfo(lines))

\* The body of the loop for one block
ParseBlock(block) == ParseLines(NonBlankLines(block))

\* experience blocks (the pieces of experienceSection.split(/\n###\s+/))
BlockSet == {
    "Engineer at [Acme]<web_link> (Current)\nJun 2021 - Present (3 yrs)\nSingapore",
    "Analyst at Globex\nJan 2018 - Dec 2020",
    "Manager at Initech (Current)\nJan 2018 - Dec 2020",
    "Founder at Hooli (Current)\nBuilding things",
    "Intern at Umbrella\nMar 2015 - Apr 2016\nReturned Jun 2021 - Present",
    "Volunteer work\nJun 2021 - Present",
    "CTO at [ ]<web_link>\n\nJune 2022 - Present",
    "Advisor at Stark (Current)",
    "Lead at Wayne\n  \nJun 2021 - Present",
    "Clerk at Soylent\nFeb 2010 - Mar 2012\nthen Jan 2018 - Dec 2020" }

\* ParseBlock is a pure function of the block: evaluated once per block
ParseTable == [block \in BlockSet |-> ParseBlock(block)]

\* the loop body applied to any block
Parsed(block) == IF block \in BlockSet THEN ParseTable[block] ELSE ParseBlock(block)

-----------------------------------------------------------------------------
(* POST /screen, LinkedIn path: parseDates and one iteration of the        *)
(* positions loop                                                          *)

\* {year, month}
YM(year, month) == [year |-> Just(year), month |-> Just(month)]
\* interface TimePeriod: each field Null or Just({year, month})
TP(startDate, endDate, start, end) ==
    [startDate |-> startDate, endDate |-> endDate, start |-> start, end |-> end]
\* {}
EmptyTP == TP(Null, Null, Null, Null)
\* interface LinkedInPosition
Position(companyName, title, timePeriod, dateRange, company) ==
    [companyName |-> companyName, title |-> title, timePeriod |-> timePeriod,
     dateRange |-> dateRange, company |-> company]

\* d?.year
YearOf(d) == IF d = Null THEN Null ELSE d[1].year

\* const tp = entry.timePeriod ?? entry.dateRange ?? {}
timePeriodOf(entry) == Coalesce(entry.timePeriod, Coalesce(entry.dateRange, Just(EmptyTP)))[1]

\* parseDates looking at endDate only to decide isCurrent
parseDatesEndDateOnly(entry) ==
    LET tp == timePeriodOf(entry)
    IN  [startYear |-> Coalesce(YearOf(tp.startDate), Coalesce(YearOf(tp.start), Null)),
         endYear   |-> Coalesce(YearOf(tp.endDate), Coalesce(YearOf(tp.end), Null)),
         isCurrent |-> tp.endDate = Null]

\* parseDates
parseDates(entry) ==
    LET tp == timePeriodOf(entry)
    IN  [startYear |-> Coalesce(YearOf(tp.startDate), Coalesce(YearOf(tp.start), Null)),
         endYear   |-> Coalesce(YearOf(tp.endDate), Coalesce(YearOf(tp.end), Null)),
         isCurrent |-> tp.endDate = Null /\ tp.end = Null]

\* exp.company?.universalName ?? exp.company?.miniCompany?.universalName ?? null
universalNameOf(exp) ==
    IF exp.company = Null THEN Null
    ELSE Coalesce(exp.company[1].universalName,
                  IF exp.company[1].miniCompany = Null THEN Null
                  ELSE exp.company[1].miniCompany[1].universalName)

PositionSet == {
    Position(Just("Acme"), Just("Engineer"),
             Just(TP(Just(YM(2021, 6)), Null, Null, Null)), Null,
             Just([universalName |-> Just("acme"), miniCompany |-> Null])),
    Position(Null, Just("Consultant"),
             Just(TP(Just(YM(2022, 3)), Null, Null, Null)), Null, Null),
    Position(Just("Globex"), Just("Analyst"),
             Just(TP(Just(YM(2018, 1)), Just(YM(2020, 12)), Null, Null)), Null,
             Just([universalName |-> Just("globex"), miniCompany |-> Null])),
    Position(Just("Initech"), Just("Manager"),
             Null, Just(TP(Null, Null, Just(YM(2019, 2)), Just(YM(2021, 5)))),
             Just([universalName |-> Null,
                   miniCompany |-> Just([universalName |-> Just("initech")])])),
    Position(Just(""), Just("Freelancer"),
             Null, Just(TP(Null, Null, Just(YM(2023, 1)), Null)), Null),
    Position(Just("Hooli"), Null, Null, Null, Null),
    Position(Just("Umbrella"), Just("Intern"),
             Just(TP(Just(YM(2015, 3)), Just([year |-> Null, month |-> Null]), Null, Null)),
             Null, Null),
    Position(Just("Soylent"), Just("Clerk"),
             Just(TP(Just([year |-> Null, month |-> Just(3)]), Just(YM(2020, 12)),
                     Just(YM(2019, 2)), Just(YM(2021, 5)))),
             Null, Null),
    Position(Just("Wayne"), Just("Lead"),
             Just(TP(Just(YM(2016, 1)), Null, Just(YM(2017, 1)), Just(YM(2018, 1)))),
             Null, Null) }

-----------------------------------------------------------------------------
(* Experience specification: the experience loop of each path, one action  *)
(* per iteration                                                           *)

InitExperience ==
    /\ source \in {"exa", "linkedin"}
    /\ IF source = "exa"
       THEN expBlocks \in SeqsUpTo(BlockSet, MaxBlocks) /\ positions = <<>>
       ELSE positions \in SeqsUpTo(PositionSet, MaxPositions) /\ expBlocks = <<>>
    /\ idx = 0
    /\ experiences = <<>>
    /\ currentCompany = Null
    /\ currentPositionStart = Null
    /\ currentCompanyUniversalName = Null
    /\ blockEntry = <<>>
    /\ allEducation = <<>>
    /\ education = <<>>
    /\ eduDone = FALSE
    /\ RestIdle

\* the loop body putting each entry in front of the list (unshift for push)
ExaBlockUnshift ==
    /\ source = "exa"
    /\ textDone
    /\ idx < Len(expBlocks)
    /\ LET parsed == Parsed(expBlocks[idx + 1])
       IN  IF parsed.entry = Null
           THEN /\ blockEntry' = Append(blockEntry, 0)
                /\ UNCHANGED <<experiences, currentCompany, currentPositionStart>>
           ELSE /\ experiences' = <<parsed.entry[1]>> \o experiences
                /\ blockEntry' = Append(blockEntry, Len(experiences) + 1)
                /\ IF parsed.entry[1].current /\ FalsyString(currentCompany)
                   THEN /\ currentCompany' = parsed.entry[1].company
                        /\ currentPositionStart' = parsed.start
                   ELSE UNCHANGED <<currentCompany, currentPositionStart>>
    /\ idx' = idx + 1
    /\ UNCHANGED <<source, expBlocks, positions, currentCompanyUniversalName>>
    /\ UNCHANGED eduVars
    /\ UNCHANGED restVars

\* getProfileWithExa: for (const block of expBlocks) { ... }
ExaBlock ==
    /\ source = "exa"
    /\ textDone
    /\ idx < Len(expBlocks)
    /\ LET parsed == Parsed(expBlocks[idx + 1])
       IN  IF parsed.entry = Null
           THEN /\ blockEntry' = Append(blockEntry, 0)
                /\ UNCHANGED <<experiences, currentCompany, currentPositionStart>>
           ELSE /\ experiences' = Append(experiences, parsed.entry[1])
                /\ blockEntry' = Append(blockEntry, Len(experiences) + 1)
                /\ IF parsed.entry[1].current /\ FalsyString(currentCompany)
                   THEN /\ currentCompany' = parsed.entry[1].company
                        /\ currentPositionStart' = parsed.start
                   ELSE UNCHANGED <<currentCompany, currentPositionStart>>
    /\ idx' = idx + 1
    /\ UNCHANGED <<source, expBlocks, positions, currentCompanyUniversalName>>
    /\ UNCHANGED eduVars
    /\ UNCHANGED restVars

\* POST /screen: for (const exp of positions) { ... }
ScreenPosition ==
    /\ source = "linkedin"
    /\ idx < Len(positions)
    /\ LET exp   == positions[idx + 1]
           dates == parseDates(exp)
           tp    == timePeriodOf(exp)
       IN  /\ experiences' = Append(experiences,
                                    [company |-> Coalesce(exp.companyName, Null),
                                     title   |-> Coalesce(exp.title, Null),
                                     start   |-> dates.startYear,
                                     end     |-> IF dates.isCurrent THEN Null ELSE dates.endYear,
                                     current |-> dates.isCurrent])
           /\ blockEntry' = Append(blockEntry, Len(experiences) + 1)
           /\ IF dates.isCurrent /\ FalsyString(currentCompany)
              THEN /\ currentCompany' = Coalesce(exp.companyName, Null)
                   /\ currentCompanyUniversalName' = universalNameOf(exp)
                   /\ currentPositionStart' = Coalesce(tp.startDate, Coalesce(tp.start, Null))
              ELSE UNCHANGED <<currentCompany, currentCompanyUniversalName, currentPositionStart>>
    /\ idx' = idx + 1
    /\ UNCHANGED <<source, expBlocks, positions>>
    /\ UNCHANGED eduVars
    /\ UNCHANGED restVars

NextExperience == ExaBlock \/ ScreenPosition

SpecExperience == InitExperience /\ [][NextExperience]_vars

-----------------------------------------------------------------------------
(* Claims about the experience entries and the current company *)

\* the blocks whose first non-blank line carries the literal "(Current)"
MarkedBlocks ==
    {block \in BlockSet : /\ NonBlankLines(block) # <<>>
                          /\ isCurrentMarker(NonBlankLines(block)[1])}

\* the blocks whose first non-blank line matches one of the two title patterns
TitledBlocks ==
    {block \in BlockSet : /\ NonBlankLines(block) # <<>>
                          /\ TitleAndCompany(NonBlankLines(block)[1]) # Null}

\* the blocks whose first line matching the date pattern has range as its
\* leftmost match
FirstRangeBlocks(range) ==
    {block \in BlockSet : /\ dateInfo(NonBlankLines(block)) # Null
                          /\ DateMatch(dateInfo(NonBlankLines(block))[1]).text = range}

PresentBlocks      == {block \in BlockSet : Includes(block, "Jun 2021 - Present")}
ClosedBlocks       == {block \in BlockSet : Includes(block, "Jan 2018 - Dec 2020")}
PresentFirstBlocks == FirstRangeBlocks("Jun 2021 - Present")
ClosedFirstBlocks  == FirstRangeBlocks("Jan 2018 - Dec 2020")

\* the consumed blocks of the free-text parser that produced an entry
EntryBlocks == IF source = "exa" THEN {b \in 1..idx : blockEntry[b] # 0} ELSE {}
\* the entry produced for consumed block (or position) b
EntryOf(b) == experiences[blockEntry[b]]

\* C6: in either source, every experience entry with current = true has a
\* null end year.
C6_CurrentHasNoEnd ==
    \A i \in DOMAIN experiences : experiences[i].current => experiences[i].end = Null

\* C7 as stated: every block of the free-text parser that contains
\* "Jun 2021 - Present" yields an entry with current = true and end = null.
C7_PresentAnywhere ==
    \A b \in EntryBlocks :
        expBlocks[b] \in PresentBlocks => EntryOf(b).current /\ EntryOf(b).end = Null

\* C7 amended: every block whose first date-range match is
\* "Jun 2021 - Present" yields an entry with current = true and end = null,
\* with or without "(Current)" in its first line.
C7_PresentFirst ==
    \A b \in EntryBlocks :
        expBlocks[b] \in PresentFirstBlocks => EntryOf(b).current /\ EntryOf(b).end = Null

\* a block without the "(Current)" marker whose first date range is
\* "Jun 2021 - Present" has produced its entry
C7_Witness ==
    \E b \in EntryBlocks :
        /\ expBlocks[b] \in PresentFirstBlocks \ MarkedBlocks
        /\ EntryOf(b).current

\* C8 as stated: every block of the free-text parser that contains
\* "Jan 2018 - Dec 2020" yields an entry with start 2018, end 2020 and
\* current = false.
C8_ClosedAnywhere ==
    \A b \in EntryBlocks :
        expBlocks[b] \in ClosedBlocks =>
            /\ EntryOf(b).start = Just(2018)
            /\ EntryOf(b).end = Just(2020)
            /\ ~EntryOf(b).current

\* C8 amended: every block whose first date-range match is
\* "Jan 2018 - Dec 2020" and whose first line has no "(Current)" yields an
\* entry with start 2018, end 2020 and current = false.
C8_ClosedFirstUnmarked ==
    \A b \in EntryBlocks :
        expBlocks[b] \in ClosedFirstBlocks \ MarkedBlocks =>
            /\ EntryOf(b).start = Just(2018)
            /\ EntryOf(b).end = Just(2020)
            /\ ~EntryOf(b).current

\* an unmarked block whose first date range is "Jan 2018 - Dec 2020" has
\* produced its entry
C8_Witness ==
    \E b \in EntryBlocks :
        /\ expBlocks[b] \in ClosedFirstBlocks \ MarkedBlocks
        /\ EntryOf(b).start = Just(2018)

\* C9: every consumed block whose first line matches a title pattern and
\* contains "(Current)" has an entry, and that entry has current = true,
\* whatever the rest of the block holds.
C9_MarkerEmitsCurrent ==
    source = "exa" =>
        \A b \in 1..idx :
            expBlocks[b] \in TitledBlocks \cap MarkedBlocks =>
                blockEntry[b] # 0 /\ EntryOf(b).current

\* the index of the first entry, in source order, whose current flag is true
FirstCurrent == Min({k \in DOMAIN experiences : experiences[k].current})
\* the block or position that produced entry k
SourceOf(k) == CHOOSE b \in 1..idx : blockEntry[b] = k
\* the start date the source gives for block or position b
SourceStart(b) ==
    IF source = "exa" THEN ParseTable[expBlocks[b]].start
    ELSE Coalesce(timePeriodOf(positions[b]).startDate,
                  Coalesce(timePeriodOf(positions[b]).start, Null))

\* C10: in both sources, as soon as some entry is current, current_company.name
\* and position_start are those of the first current entry, whatever follows
\* and whatever its company name.
C10_FirstCurrentWins ==
    (\E k \in DOMAIN experiences : experiences[k].current) =>
        /\ currentCompany = experiences[FirstCurrent].company
        /\ currentPositionStart = SourceStart(SourceOf(FirstCurrent))

\* The two forms of a first line, read off the line without the regexes:
\* "<title> at [<company>]..." and "<title> at <company>", the plain company
\* ending before the first "(" or at the end of the line.
BracketCompanyFrom(first, k, c) ==
    IF k = 0 \/ c = 0 THEN Null
    ELSE Just([title   |-> Trim(Slice(first, 1, k - 1)),
               company |-> Trim(Slice(first, k + 5, c - 1))])
BracketForm(first) ==
    BracketCompanyFrom(first, IndexOfFrom(first, " at [", 1),
                       IndexOfFrom(first, "]", IndexOfFrom(first, " at [", 1) + 6))

PlainCompanyFrom(first, k, p) ==
    IF k = 0 THEN Null
    ELSE Just([title   |-> Trim(Slice(first, 1, k - 1)),
               company |-> Trim(Slice(first, k + 4, IF p = 0 THEN Len(first) ELSE p - 1))])
PlainForm(first) ==
    PlainCompanyFrom(first, IndexOfFrom(first, " at ", 1),
                     IndexOfFrom(first, "(", IndexOfFrom(first, " at ", 1) + 4))

\* the title and company the first line of a block stands for: the bracketed
\* form first, the plain form only when the line has no bracketed form
FirstLineForm(first) == Coalesce(BracketForm(first), PlainForm(first))

FormTable == [block \in BlockSet |-> FirstLineForm(NonBlankLines(block)[1])]
BracketBlocks == {block \in BlockSet : BracketForm(NonBlankLines(block)[1]) # Null}
FormlessBlocks == {block \in BlockSet : FormTable[block] = Null}

\* every entry carries the title and company of its block's first line
C13_EntryFollowsForm ==
    \A b \in EntryBlocks :
        /\ FormTable[expBlocks[b]] # Null
        /\ EntryOf(b).title = Just(FormTable[expBlocks[b]][1].title)
        /\ EntryOf(b).company = Just(FormTable[expBlocks[b]][1].company)

\* the iteration over a block whose first line has neither form
C13_FormlessStep ==
    (source = "exa" /\ idx' = idx + 1 /\ expBlocks[idx + 1] \in FormlessBlocks) =>
        /\ blockEntry'[idx + 1] = 0
        /\ UNCHANGED <<experiences, currentCompany, currentPositionStart>>

\* C13: the first line of a block is read as "<title> at [<company>]" first
\* and as "<title> at <company>" (company ending at the first "(" or at the
\* end of the line) only when it has no bracketed form; a block whose first
\* line has neither form adds no entry and leaves the current company alone.
C13_FirstLine == [](C13_EntryFollowsForm) /\ [][C13_FormlessStep]_vars

\* a bracketed block, a plain block and a block of neither form have been
\* walked, the first two with an entry each
C13_Witness ==
    /\ \E b \in EntryBlocks : expBlocks[b] \in BracketBlocks
                              /\ EntryOf(b).company = Just("Acme")
    /\ \E b \in EntryBlocks : expBlocks[b] \notin BracketBlocks
                              /\ EntryOf(b).company = Just("Globex")
    /\ \E b \in 1..idx : expBlocks[b] \in FormlessBlocks

\* the number of an English month name, abbreviated or in full
MonthNumber(name) ==
    CASE name \in {"Jan", "January"}   -> Just(1)
      [] name \in {"Feb", "February"}  -> Just(2)
      [] name \in {"Mar", "March"}     -> Just(3)
      [] name \in {"Apr", "April"}     -> Just(4)
      [] name = "May"                  -> Just(5)
      [] name \in {"Jun", "June"}      -> Just(6)
      [] name \in {"Jul", "July"}      -> Just(7)
      [] name \in {"Aug", "August"}    -> Just(8)
      [] name \in {"Sep", "September"} -> Just(9)
      [] name \in {"Oct", "October"}   -> Just(10)
      [] name \in {"Nov", "November"}  -> Just(11)
      [] name \in {"Dec", "December"}  -> Just(12)
      [] OTHER -> Null

\* the date-range match of each block that has a date line
DatedBlocks == {block \in BlockSet : dateInfo(NonBlankLines(block)) # Null}
DateTable == [block \in DatedBlocks |-> DateMatch(dateInfo(NonBlankLines(block))[1])]

\* C14: a current company designated by the free-text parser has a
\* position_start whose year is the start year matched in the designating
\* block and whose month is the number of the matched month name, whether
\* the name is abbreviated or written in full.
C14_StartMonth ==
    (source = "exa" /\ currentPositionStart # Null) =>
        \E b \in EntryBlocks :
            /\ EntryOf(b).current
            /\ currentPositionStart[1].year = Just(ParseInt(DateTable[expBlocks[b]].g2))
            /\ currentPositionStart[1].month = MonthNumber(DateTable[expBlocks[b]].g1)
            /\ currentPositionStart[1].month # Null

\* the year of the first of the two date values that has one
FirstYear(d1, d2) ==
    IF d1 # Null /\ d1[1].year # Null THEN d1[1].year
    ELSE IF d2 # Null /\ d2[1].year # Null THEN d2[1].year
    ELSE Null

\* C15: for every position walked by the LinkedIn path, the entry is current
\* exactly when its time period has neither endDate nor end, its start year
\* is the year of startDate, else of start, else null, and its end year
\* likewise that of endDate, else of end, else null.
C15_ParseDates ==
    source = "linkedin" =>
        \A k \in 1..idx :
            /\ experiences[k].current <=> (/\ timePeriodOf(positions[k]).endDate = Null
                                           /\ timePeriodOf(positions[k]).end = Null)
            /\ experiences[k].start = FirstYear(timePeriodOf(positions[k]).startDate,
                                                timePeriodOf(positions[k]).start)
            /\ experiences[k].end = FirstYear(timePeriodOf(positions[k]).endDate,
                                              timePeriodOf(positions[k]).end)

\* positions with no time period at all, with an end under the second naming
\* only, and with both namings at once have been through parseDates
C15_Witness ==
    /\ source = "linkedin"
    /\ \E k \in 1..idx : positions[k].timePeriod = Null /\ positions[k].dateRange = Null
                         /\ experiences[k].current
    /\ \E k \in 1..idx : /\ timePeriodOf(positions[k]).endDate = Null
                         /\ timePeriodOf(positions[k]).end # Null
                         /\ ~experiences[k].current
    /\ \E k \in 1..idx : /\ timePeriodOf(positions[k]).endDate # Null
                         /\ timePeriodOf(positions[k]).end # Null
                         /\ experiences[k].end = Just(2020)

-----------------------------------------------------------------------------
(* getProfileWithExa: from content.text to education entries and           *)
(* experience blocks                                                       *)

\* ^ of a regex with the m flag: k is the start of the text or follows "\n"
LineStart(s, k) == k = 1 \/ Char(s, k - 1) = "\n"

\* the positions where /^## /m matches
SectionStarts(s) == {k \in 1..Len(s) : LineStart(s, k) /\ StartsWithAt(s, k, "## ")}

\* the i-th smallest element of a set of positions
Nth(S, i) == CHOOSE k \in S : Cardinality({j \in S : j < k}) = i - 1

\* the pieces of s between the separators of length 3 that start at starts
SectionsAt(s, starts) ==
    [i \in 1..(Cardinality(starts) + 1) |->
        Slice(s, IF i = 1 THEN 1 ELSE Nth(starts, i - 1) + 3,
                 IF i = Cardinality(starts) + 1 THEN Len(s) ELSE Nth(starts, i) - 1)]

\* text.split(/^## /m): the text before the first header is the first piece
Sections(s) == SectionsAt(s, SectionStarts(s))

SectionOrEmpty(sections, i) == IF i = 0 THEN "" ELSE sections[i]
\* sections.find(s => s.startsWith(name)) || ''
FindSection(sections, name) ==
    SectionOrEmpty(sections,
                   MinOrZero({i \in DOMAIN sections : StartsWithAt(sections[i], 1, name)}))

\* educationSection.split('\n').filter(l => l.trim().startsWith('###'))
eduLines(educationSection) ==
    SelectSeq(SplitLines(educationSection), LAMBDA l : StartsWithAt(Trim(l), 1, "###"))

\* (.+) after \s+at, a being the position after "at" and n the position after
\* the blanks: the first index of the school group, or 0.  At the end of the
\* line \s+ gives its last blank back to the group, if it has two or more.
EduSchoolStart(s, a, n) ==
    IF n = 0 THEN 0
    ELSE IF n <= Len(s) THEN n
    ELSE IF n - 1 > a THEN n - 1
    ELSE 0

\* \s+at\s+(.+)  tried at q: the first index of the school group, or 0
EduRestAt(s, q) == EduSchoolStart(s, AfterAt(s, q), Spaces1(s, AfterAt(s, q)))

\* ###\s*(.+?)\s+at\s+(.+) with "###" at h: the positions where the degree
\* group can start (\s* may give blanks back to it) so that the rest matches
EduDegreeStarts(s, h) ==
    {d \in (h + 3)..Spaces0(s, h + 3) :
        d <= Len(s) /\ \E q \in (d + 1)..Len(s) : EduRestAt(s, q) # 0}

\* the groups when the degree starts at d and ends before q
EduGroups(s, d, q) ==
    [g1 |-> Slice(s, d, q - 1), g2 |-> Slice(s, EduRestAt(s, q), Len(s))]

\* EduGroupsFrom with a greedy degree group: the split at the last " at "
EduGroupsFromGreedy(s, d) ==
    EduGroups(s, d, Max({q \in (d + 1)..Len(s) : EduRestAt(s, q) # 0}))

\* the greedy \s* keeps the most blanks: the degree starts as late as it can,
\* and the lazy (.+?) ends as early as it can
EduGroupsFrom(s, d) == EduGroups(s, d, Min({q \in (d + 1)..Len(s) : EduRestAt(s, q) # 0}))

EduMatchAt(s, h) == IF h = 0 THEN Null ELSE Just(EduGroupsFrom(s, Max(EduDegreeStarts(s, h))))

\* line.match(/###\s*(.+?)\s+at\s+(.+)/): Null, or the groups [1] and [2]
EduMatch(line) ==
    EduMatchAt(line, MinOrZero({h \in 1..Len(line) :
                                   StartsWithAt(line, h, "###") /\ EduDegreeStarts(line, h) # {}}))

\* \[([^\]]+)\]<web_link> tried at k, c being the first "]" after k: c, or 0
LinkCloseAt(s, k, c) ==
    IF Char(s, k) = "[" /\ c >= k + 2 /\ StartsWithAt(s, c + 1, "<web_link>") THEN c ELSE 0

LinkClose(s, k) == LinkCloseAt(s, k, IndexOfFrom(s, "]", k + 1))

RECURSIVE StripLinks(_)
StripFrom(s, k) ==
    IF k = 0 THEN s
    ELSE Slice(s, 1, k - 1) \o Slice(s, k + 1, LinkClose(s, k) - 1)
           \o StripLinks(Slice(s, LinkClose(s, k) + 11, Len(s)))

\* school.replace(/\[([^\]]+)\]<web_link>/g, '$1')
StripLinks(s) == StripFrom(s, MinOrZero({k \in 1..Len(s) : LinkClose(s, k) # 0}))

\* the entry pushed for a line that matched; Null for a line that did not
EduEntryOf(match) ==
    IF match = Null THEN Null
    ELSE Just(Edu(Just(StripLinks(Trim(match[1].g2))), Just(Trim(match[1].g1))))

ParseEduLine(line) == EduEntryOf(EduMatch(line))

\* the values of the non-null elements, in order
Pushed(results) ==
    [i \in 1..Len(SelectSeq(results, LAMBDA r : r # Null)) |->
        SelectSeq(results, LAMBDA r : r # Null)[i][1]]

ParseEduLines(lines) == Pushed([i \in DOMAIN lines |-> ParseEduLine(lines[i])])

\* the education list before filtering
ParseEducation(s) == ParseEduLines(eduLines(FindSection(Sections(s), "Education")))

RECURSIVE SplitBlocks(_)
SplitBlocksAt(s, k) ==
    IF k = 0 THEN <<s>>
    ELSE <<Slice(s, 1, k - 1)>> \o SplitBlocks(Slice(s, Spaces1(s, k + 4), Len(s)))

\* experienceSection.split(/\n###\s+/)
SplitBlocks(s) ==
    SplitBlocksAt(s, MinOrZero({k \in 1..Len(s) :
                                   StartsWithAt(s, k, "\n###") /\ Spaces1(s, k + 4) # 0}))

\* .filter(b => b.trim() && !b.startsWith('Experience'))
KeepBlocks(blocks) ==
    SelectSeq(blocks, LAMBDA b : Trim(b) # "" /\ ~StartsWithAt(b, 1, "Experience"))

\* expBlocks
ExperienceBlocks(s) == KeepBlocks(SplitBlocks(FindSection(Sections(s), "Experience")))

-----------------------------------------------------------------------------
(* Text specification: content.text is put together from a preamble, an    *)
(* optional Education section and an optional Experience section; the      *)
(* parser splits it, then filters the education and walks the blocks.      *)

\* link markup around a name
Link(t) == "[" \o t \o "]<web_link>"

\* a line of a section: its text, whether it has the form
\* "### <degree> at <school>", and then the degree and the school in plain text
EntryLine(degree, school, plain) ==
    [line |-> "### " \o degree \o " at " \o school, entry |-> TRUE,
     degree |-> degree, plain |-> plain]
OtherLine(line) == [line |-> line, entry |-> FALSE, degree |-> "", plain |-> ""]

EduLineSet == {
    EntryLine("PhD in Physics", "MIT", "MIT"),
    EntryLine("MBA", Link("Stanford University"), "Stanford University"),
    EntryLine("Diploma, Data Science", Link("NUS") \o " and " \o Link("Yale at Large"),
              "NUS and Yale at Large"),
    OtherLine("### Coursework and thesis"),
    OtherLine("Chess at the club") }

\* the text before the first header: its first line, and the lines after it
Preamble(title, lines, blocks) == [title |-> title, lines |-> lines, blocks |-> blocks]

PreambleSet == {
    Preamble("", <<>>, <<>>),
    Preamble("Jane Doe\nSingapore", <<>>, <<>>),
    Preamble("Education Consultant", <<EntryLine("Bachelor of Arts", "NUS", "NUS")>>, <<>>),
    Preamble("Experienced engineer", <<>>, <<"Analyst at Globex\nJan 2018 - Dec 2020">>) }

ExperienceDocs == {
    <<"Engineer at [Acme]<web_link> (Current)\nJun 2021 - Present (3 yrs)\nSingapore",
      "Volunteer work\nJun 2021 - Present",
      "Analyst at Globex\nJan 2018 - Dec 2020">> }

DocSet ==
    [pre : PreambleSet,
     edu : {Null} \cup {Just(ls) : ls \in SeqsUpTo(EduLineSet, MaxEduLines)},
     exp : {Null} \cup {Just(bs) : bs \in ExperienceDocs}]

RECURSIVE RenderLines(_)
RenderLines(ls) ==
    IF ls = <<>> THEN "" ELSE "\n" \o Head(ls).line \o RenderLines(Tail(ls))

RECURSIVE RenderBlocks(_)
RenderBlocks(bs) ==
    IF bs = <<>> THEN "" ELSE "\n### " \o Head(bs) \o RenderBlocks(Tail(bs))

\* content.text for a document
Render(d) ==
    d.pre.title \o RenderLines(d.pre.lines) \o RenderBlocks(d.pre.blocks)
      \o (IF d.edu = Null THEN "" ELSE "\n## Education" \o RenderLines(d.edu[1]))
      \o (IF d.exp = Null THEN "" ELSE "\n## Experience" \o RenderBlocks(d.exp[1]))

InitText ==
    /\ source = "exa"
    /\ doc \in {Just(d) : d \in DocSet}
    /\ text = Render(doc[1])
    /\ textDone = FALSE
    /\ allEducation = <<>>
    /\ education = <<>>
    /\ eduDone = FALSE
    /\ expBlocks = <<>>
    /\ positions = <<>>
    /\ idx = 0
    /\ experiences = <<>>
    /\ currentCompany = Null
    /\ currentPositionStart = Null
    /\ currentCompanyUniversalName = Null
    /\ blockEntry = <<>>
    /\ ReqIdle
    /\ LimIdle

\* getProfileWithExa: sections, the education loop, expBlocks
ExaParseText ==
    /\ source = "exa"
    /\ ~textDone
    /\ allEducation' = ParseEducation(text)
    /\ expBlocks' = ExperienceBlocks(text)
    /\ textDone' = TRUE
    /\ UNCHANGED <<source, doc, text, education, eduDone, positions, idx, experiences,
                   currentCompany, currentPositionStart, currentCompanyUniversalName,
                   blockEntry>>
    /\ UNCHANGED <<reqVars, limVars, sessVars, cliVars>>

NextText == ExaParseText \/ ExaFilterEducation \/ ExaBlock

SpecText == InitText /\ [][NextText]_vars

-----------------------------------------------------------------------------
(* Claims about the sections of the text *)

\* some line of s starts with header
HeaderLine(s, header) ==
    \E k \in 1..Len(s) : LineStart(s, k) /\ StartsWithAt(s, k, header)

\* C11: once the text is split, a text with no line starting with
\* "## Education" gives an empty education list, and a text with no line
\* starting with "## Experience" gives no experience entry and no current
\* company.
C11_MissingSection ==
    (doc # Null /\ textDone) =>
        /\ ~HeaderLine(text, "## Education") => education = <<>>
        /\ ~HeaderLine(text, "## Experience") => experiences = <<>> /\ currentCompany = Null

\* the lines of the section the education loop reads: the first piece of the
\* text that starts with "Education"
EducationLinesOf(d) ==
    IF StartsWithAt(d.pre.title, 1, "Education") THEN d.pre.lines
    ELSE IF d.edu = Null THEN <<>>
    ELSE d.edu[1]

\* the entries that the lines of the form "### <degree> at <school>" stand for
EntriesOfLines(lines) ==
    [i \in 1..Len(SelectSeq(lines, LAMBDA l : l.entry)) |->
        Edu(Just(SelectSeq(lines, LAMBDA l : l.entry)[i].plain),
            Just(SelectSeq(lines, LAMBDA l : l.entry)[i].degree))]

-----------------------------------------------------------------------------
(* The POST /screen handler: one action per step between two awaits or     *)
(* two decisions of the handler                                            *)

\* the longest url validateLinkedInUrl accepts
MaxUrlLength == 500

\* validateLinkedInUrl
validateLinkedInUrl(u) ==
    /\ u # ""
    /\ Len(u) <= MaxUrlLength
    /\ Includes(u, "linkedin.com/in/") \/ Includes(u, "linkedin.com/company/")
    /\ StartsWithAt(u, 1, "http://") \/ StartsWithAt(u, 1, "https://")

RECURSIVE Repeat(_, _)
\* c.repeat(n)
Repeat(c, n) ==
    IF n = 0 THEN ""
    ELSE IF n % 2 = 1 THEN c \o Repeat(c, n - 1)
    ELSE Repeat(c \o c, n \div 2)

\* a profile url of MaxUrlLength + 1 characters
LongUrl == "https://www.linkedin.com/in/" \o Repeat("a", MaxUrlLength - 27)

\* req.body?.url ?? '' of the requests
UrlSet == { "", "  ", " https://www.linkedin.com/in/jane ",
            "http://linkedin.com/company/acme", "www.linkedin.com/in/jane",
            "https://example.com/in/jane", "https://notlinkedin.com/in/jane",
            "https://example.com/?next=linkedin.com/in/jane", LongUrl }

\* new Date().getFullYear() at the time of the request
YearSet == {2025, 2026}

\* the value of LI_AT_ENV when it is set
LiAt == "li_at"

RECURSIVE ToStr(_)
\* String(n) for a number n >= 0
ToStr(n) ==
    IF n < 10 THEN Char(DigitChars, n + 1)
    ELSE ToStr(n \div 10) \o Char(DigitChars, (n % 10) + 1)

\* a CompanyData element
CompanyData(foundedOn, staffCount, companyIndustries) ==
    [foundedOn |-> foundedOn, staffCount |-> staffCount,
     companyIndustries |-> companyIndustries]

\* the elements[0] the company lookup can answer with
CompanyDataSet == {
    CompanyData(Just([year |-> Just(2015)]), Just(120),
                Just(<<[localizedName |-> Just("Software")]>>)),
    CompanyData(Just([year |-> Just(0)]), Just(0), Just(<<>>)),
    CompanyData(Just([year |-> Null]), Null, Just(<<[localizedName |-> Null]>>)),
    CompanyData(Null, Just(35), Null) }

\* data.positions of the profiles fetched
ScreenPositionSet ==
    {p \in PositionSet : p.companyName \in {Just("Acme"), Just("Hooli"), Just("Globex")}}

\* interface LinkedInEducation
LinkedInEducation(schoolName, school, degreeName, degree, fieldOfStudy, timePeriod) ==
    [schoolName |-> schoolName, school |-> school, degreeName |-> degreeName,
     degree |-> degree, fieldOfStudy |-> fieldOfStudy, timePeriod |-> timePeriod,
     dateRange |-> Null]

\* /^[\d.]+$/.test(s)
IsGrade(s) == s # "" /\ \A i \in 1..Len(s) : IsDigit(Char(s, i)) \/ Char(s, i) = "."

\* the degree string built from degreeName (null when it is a grade) and
\* fieldOfStudy, with the final fallback
degreeOf(degreeName, fieldOfStudy) ==
    IF FalsyString(degreeName) /\ ~FalsyString(fieldOfStudy) THEN fieldOfStudy
    ELSE IF ~FalsyString(degreeName) /\ ~FalsyString(fieldOfStudy)
            /\ degreeName # fieldOfStudy
    THEN Just(degreeName[1] \o ", " \o fieldOfStudy[1])
    ELSE IF FalsyString(degreeName) THEN Just(EmDash)
    ELSE degreeName

\* let degreeName = edu.degreeName ?? edu.degree ?? null, discarded when it
\* looks like a grade
degreeNameOf(degreeName) ==
    IF ~FalsyString(degreeName) /\ IsGrade(Trim(degreeName[1])) THEN Null ELSE degreeName

\* the callback of educations.map
educationOf(edu) ==
    EduAt(Coalesce(edu.schoolName,
                   IF edu.school = Null THEN Null ELSE edu.school[1].schoolName),
          degreeOf(degreeNameOf(Coalesce(edu.degreeName, edu.degree)), edu.fieldOfStudy),
          edu.fieldOfStudy,
          parseDates(edu).startYear,
          parseDates(edu).endYear)

\* data.educations of the profiles fetched
EducationLists == {
    <<>>,
    <<LinkedInEducation(Just("NUS"), Null, Null, Just("Bachelor of Arts"), Null, Null),
      LinkedInEducation(Just("MIT"), Null, Just("PhD in Physics"), Null,
                        Just("PhD in Physics"), Null)>>,
    <<LinkedInEducation(Just("Stanford University"), Null, Just("MBA"), Null, Null,
                        Just(TP(Just(YM(2020, 9)), Just(YM(2022, 6)), Null, Null))),
      LinkedInEducation(Just("MIT"), Null, Just("PhD"), Null, Just("Physics"),
                        Just(TP(Just(YM(2010, 9)), Just(YM(2014, 6)), Null, Null)))>>,
    <<LinkedInEducation(Just("NUS"), Null, Null, Null, Just("Computer Science"), Null),
      LinkedInEducation(Null, Just([schoolName |-> Just("Lincoln High School")]),
                        Just(" 3.9 "), Null, Null,
                        Just(TP(Just(YM(2004, 8)), Just(YM(2008, 5)), Null, Null)))>> }

\* the profiles getLinkedInProfile can return
ProfileSet ==
    [positions  : SeqsUpTo(ScreenPositionSet, MaxProfilePositions),
     educations : EducationLists]

\* the contents exaClient.getContents can return
ScreenDocSet ==
    {d \in DocSet : \/ /\ d.pre.title = "Jane Doe\nSingapore"
                       /\ d.edu \in {Null, Just(<<EntryLine("PhD in Physics", "MIT", "MIT")>>)}
                    \/ d = [pre |-> Preamble("", <<>>, <<>>), edu |-> Null, exp |-> Null]}

\* the outcomes of GET /voyager/api/me under validateStatus 200..399
MeResults == {"200", "301", "302", "303", "401", "403", "error"}

Call(call, result) == [call |-> call, result |-> result]

\* the request is sent
Started(call) == Append(calls, Call(call, "pending"))

\* the pending request, the last one, has its outcome
Finished(result) == [calls EXCEPT ![Len(calls)].result = result]

\* res.status(status).json({ error })
ErrorResponse(status, error) == Just([status |-> status, body |-> [error |-> error]])

\* res.json(profile): the fields of the body the statements here are about
ProfileResponse(src, company) ==
    Just([status |-> 200,
          body |-> [education |-> education, experiences |-> experiences,
                    current_company |-> company, source |-> src]])

\* the state of a request before its handler runs
Arrive ==
    /\ url' \in UrlSet
    /\ currentYear' \in YearSet
    /\ pc' = "start"
    /\ calls' = <<>>
    /\ companyData' = Null
    /\ details' = NoDetails
    /\ response' = Null
    /\ source' = "none"
    /\ doc' = Null
    /\ text' = ""
    /\ textDone' = FALSE
    /\ allEducation' = <<>>
    /\ education' = <<>>
    /\ eduDone' = FALSE
    /\ expBlocks' = <<>>
    /\ positions' = <<>>
    /\ idx' = 0
    /\ experiences' = <<>>
    /\ currentCompany' = Null
    /\ currentPositionStart' = Null
    /\ currentCompanyUniversalName' = Null
    /\ blockEntry' = <<>>

InitScreen ==
    /\ config \in [exa : BOOLEAN, liAt : BOOLEAN]
    /\ sessionCache = EmptyMap
    /\ SessIdle
    /\ CliIdle
    /\ url \in UrlSet
    /\ currentYear \in YearSet
    /\ pc = "start"
    /\ calls = <<>>
    /\ companyData = Null
    /\ details = NoDetails
    /\ response = Null
    /\ source = "none"
    /\ doc = Null
    /\ text = ""
    /\ textDone = FALSE
    /\ allEducation = <<>>
    /\ education = <<>>
    /\ eduDone = FALSE
    /\ expBlocks = <<>>
    /\ positions = <<>>
    /\ idx = 0
    /\ experiences = <<>>
    /\ currentCompany = Null
    /\ currentPositionStart = Null
    /\ currentCompanyUniversalName = Null
    /\ blockEntry = <<>>
    /\ LimIdle

\* the variables of the parsing statements
parseVars == <<source, eduVars, expVars, textVars>>

\* the handler returns with res.status(status).json({ error })
Fail(status, error) ==
    /\ response' = ErrorResponse(status, error)
    /\ pc' = "done"

\* the handler with the li_at method tried before Exa
ScreenValidateCookieFirst ==
    /\ pc = "start"
    /\ LET linkedinUrl == Trim(url)
       IN  IF linkedinUrl = ""
           THEN Fail(400, "No LinkedIn URL provided")
           ELSE IF ~validateLinkedInUrl(linkedinUrl)
           THEN Fail(400, "Invalid LinkedIn URL")
           ELSE /\ pc' = IF config.liAt THEN "li_at" ELSE "exa"
                /\ UNCHANGED response
    /\ UNCHANGED <<limVars, sessVars, cliVars, config, url, currentYear, calls, sessionCache, companyData, details>>
    /\ UNCHANGED parseVars

\* the trim, the two 400 answers, if (EXA_API_KEY && exaClient)
ScreenValidate ==
    /\ pc = "start"
    /\ LET linkedinUrl == Trim(url)
       IN  IF linkedinUrl = ""
           THEN Fail(400, "No LinkedIn URL provided")
           ELSE IF ~validateLinkedInUrl(linkedinUrl)
           THEN Fail(400, "Invalid LinkedIn URL")
           ELSE /\ pc' = IF config.exa THEN "exa" ELSE "li_at"
                /\ UNCHANGED response
    /\ UNCHANGED <<limVars, sessVars, cliVars, config, url, currentYear, calls, sessionCache, companyData, details>>
    /\ UNCHANGED parseVars

\* getProfileWithExa: await exaClient.getContents([linkedinUrl], { text: true })
ExaGetContents ==
    /\ pc = "exa"
    /\ calls' = Started("exa.getContents")
    /\ pc' = "exaWait"
    /\ UNCHANGED <<limVars, sessVars, cliVars, config, url, currentYear, sessionCache, companyData, details, response>>
    /\ UNCHANGED parseVars

\* the catch of the Exa attempt without the return before its 500 answer
ExaFailsNoReturn ==
    /\ pc = "exaWait"
    /\ \E r \in {"throw", "empty"} : calls' = Finished(r)
    /\ IF ~config.liAt
       THEN response' = ErrorResponse(500, "Exa AI failed") /\ pc' = "li_at"
       ELSE pc' = "li_at" /\ UNCHANGED response
    /\ UNCHANGED <<limVars, sessVars, cliVars, config, url, currentYear, sessionCache, companyData, details>>
    /\ UNCHANGED parseVars

\* getContents throws or has no results, and the handler's catch: the 500
\* answer without a cookie, else the fall through to the li_at method
ExaFails ==
    /\ pc = "exaWait"
    /\ \E r \in {"throw", "empty"} : calls' = Finished(r)
    /\ IF ~config.liAt
       THEN Fail(500, "Exa AI failed")
       ELSE pc' = "li_at" /\ UNCHANGED response
    /\ UNCHANGED <<limVars, sessVars, cliVars, config, url, currentYear, sessionCache, companyData, details>>
    /\ UNCHANGED parseVars

\* getProfileWithExa throwing on an empty text as it does on no results
ExaContentThrowsOnEmpty ==
    /\ pc = "exaWait"
    /\ \E d \in ScreenDocSet :
          IF Render(d) = ""
          THEN /\ calls' = Finished("ok")
               /\ IF ~config.liAt
                  THEN Fail(500, "Exa AI failed")
                  ELSE pc' = "li_at" /\ UNCHANGED response
               /\ UNCHANGED <<source, doc, text, textDone>>
          ELSE /\ doc' = Just(d)
               /\ text' = Render(d)
               /\ calls' = Finished("ok")
               /\ source' = "exa"
               /\ textDone' = FALSE
               /\ pc' = "exaParse"
               /\ UNCHANGED response
    /\ UNCHANGED <<limVars, sessVars, cliVars, config, url, currentYear, sessionCache, companyData, details>>
    /\ UNCHANGED <<eduVars, expVars>>

\* getContents returns results: const text = content.text || ''
ExaContent ==
    /\ pc = "exaWait"
    /\ \E d \in ScreenDocSet :
          /\ doc' = Just(d)
          /\ text' = Render(d)
    /\ calls' = Finished("ok")
    /\ source' = "exa"
    /\ textDone' = FALSE
    /\ pc' = "exaParse"
    /\ UNCHANGED <<limVars, sessVars, cliVars, config, url, currentYear, sessionCache, companyData, details, response>>
    /\ UNCHANGED <<eduVars, expVars>>

\* getProfileWithExa returns its result and the handler sends it: res.json(result)
ExaRespond ==
    /\ pc = "exaParse"
    /\ textDone
    /\ eduDone
    /\ idx = Len(expBlocks)
    /\ response' = ProfileResponse(Just("exa"),
                                   [name |-> currentCompany, founded |-> Null,
                                    age_years |-> Null, size |-> Null, industry |-> Null,
                                    position_start |-> currentPositionStart])
    /\ pc' = "done"
    /\ UNCHANGED <<limVars, sessVars, cliVars, config, url, currentYear, calls, sessionCache, companyData, details>>
    /\ UNCHANGED parseVars

\* the handler without its test of LI_AT_ENV
ScreenFallBackUnchecked ==
    /\ pc = "li_at"
    /\ pc' = "session"
    /\ UNCHANGED response
    /\ UNCHANGED <<limVars, sessVars, cliVars, config, url, currentYear, calls, sessionCache, companyData, details>>
    /\ UNCHANGED parseVars

\* if (!LI_AT_ENV) return res.status(500)...
ScreenFallBack ==
    /\ pc = "li_at"
    /\ IF ~config.liAt
       THEN Fail(500, "Server not configured")
       ELSE pc' = "session" /\ UNCHANGED response
    /\ UNCHANGED <<limVars, sessVars, cliVars, config, url, currentYear, calls, sessionCache, companyData, details>>
    /\ UNCHANGED parseVars

\* buildSession: the cached client, or await axios.get(.../voyager/api/me)
buildSession ==
    /\ pc = "session"
    /\ IF LiAt \in DOMAIN sessionCache
       THEN pc' = "profile" /\ UNCHANGED calls
       ELSE pc' = "sessionWait" /\ calls' = Started("li.me")
    /\ UNCHANGED <<limVars, sessVars, cliVars, config, url, currentYear, sessionCache, companyData, details, response>>
    /\ UNCHANGED parseVars

\* buildSession after the answer: a throw for 301, 302 and for every rejected
\* request, which the handler answers with 500; else sessionCache.set
SessionResult ==
    /\ pc = "sessionWait"
    /\ \E r \in MeResults :
          /\ calls' = Finished(r)
          /\ IF r \in {"200", "303"}
             THEN /\ clients' = clients + 1
                  /\ sessionCache' = MapSet(sessionCache, LiAt, clients + 1)
                  /\ pc' = "profile"
                  /\ UNCHANGED response
             ELSE /\ Fail(500, "Failed to initialize LinkedIn session")
                  /\ UNCHANGED <<sessionCache, clients>>
    /\ UNCHANGED <<limVars, cliVars, sessions, validations, config, url, currentYear, companyData, details>>
    /\ UNCHANGED parseVars

\* getLinkedInProfile: await client.get(/identity/dash/profiles...)
getLinkedInProfile ==
    /\ pc = "profile"
    /\ calls' = Started("li.profile")
    /\ pc' = "profileWait"
    /\ UNCHANGED <<limVars, sessVars, cliVars, config, url, currentYear, sessionCache, companyData, details, response>>
    /\ UNCHANGED parseVars

\* the handler with a second profile request after a first one that threw
ProfileResultRetry ==
    /\ pc = "profileWait"
    /\ \/ /\ calls' = Finished("throw")
          /\ IF Len(SelectSeq(calls, LAMBDA c : c.call = "li.profile")) < 2
             THEN pc' = "profile" /\ UNCHANGED response
             ELSE Fail(500, "Failed to fetch LinkedIn profile")
          /\ UNCHANGED parseVars
       \/ \E r \in ProfileSet :
             /\ calls' = Finished("ok")
             /\ source' = "linkedin"
             /\ positions' = r.positions
             /\ allEducation' = [i \in 1..Len(r.educations) |-> educationOf(r.educations[i])]
             /\ pc' = "loops"
             /\ UNCHANGED <<response, education, eduDone, expBlocks, idx, experiences,
                            currentCompany, currentPositionStart,
                            currentCompanyUniversalName, blockEntry, textVars>>
    /\ UNCHANGED <<limVars, sessVars, cliVars, config, url, currentYear, sessionCache, companyData, details>>

\* the profile request throws: 500; else data.positions ?? [] and
\* allEducation = (data.educations ?? []).map(...)
ProfileResult ==
    /\ pc = "profileWait"
    /\ \/ /\ calls' = Finished("throw")
          /\ Fail(500, "Failed to fetch LinkedIn profile")
          /\ UNCHANGED parseVars
       \/ \E r \in ProfileSet :
             /\ calls' = Finished("ok")
             /\ source' = "linkedin"
             /\ positions' = r.positions
             /\ allEducation' = [i \in 1..Len(r.educations) |-> educationOf(r.educations[i])]
             /\ pc' = "loops"
             /\ UNCHANGED <<response, education, eduDone, expBlocks, idx, experiences,
                            currentCompany, currentPositionStart,
                            currentCompanyUniversalName, blockEntry, textVars>>
    /\ UNCHANGED <<limVars, sessVars, cliVars, config, url, currentYear, sessionCache, companyData, details>>

\* if (currentCompanyUniversalName): getCompanyDetails sends its request
\* (its own test of universalName then passes); else no lookup
ScreenCompany ==
    /\ pc = "loops"
    /\ eduDone
    /\ idx = Len(positions)
    /\ IF FalsyString(currentCompanyUniversalName)
       THEN pc' = "age" /\ UNCHANGED calls
       ELSE pc' = "companyWait" /\ calls' = Started("li.company")
    /\ UNCHANGED <<limVars, sessVars, cliVars, config, url, currentYear, sessionCache, companyData, details, response>>
    /\ UNCHANGED parseVars

\* industries[0]?.localizedName ?? null when the list is not empty
industryOf(data) ==
    LET industries == Coalesce(data.companyIndustries, Just(<<>>))[1]
    IN  IF Len(industries) > 0 THEN industries[1].localizedName ELSE Null

\* if (companyData) { companyFounded = ...; companySize = ...; companyIndustry = ... }
detailsOf(data) ==
    [founded  |-> IF data.foundedOn = Null THEN Null ELSE data.foundedOn[1].year,
     size     |-> IF data.staffCount # Null THEN Just(ToStr(data.staffCount[1])) ELSE Null,
     industry |-> industryOf(data),
     age      |-> Null]

\* getCompanyDetails without its catch: a throw reaches the handler's caller
getCompanyDetailsRethrow ==
    /\ pc = "companyWait"
    /\ \/ /\ calls' = Finished("throw")
          /\ Fail(500, "Internal Server Error")
          /\ UNCHANGED <<companyData, details>>
       \/ /\ calls' = Finished("empty")
          /\ companyData' = Null
          /\ pc' = "age"
          /\ UNCHANGED <<details, response>>
       \/ \E data \in CompanyDataSet :
             /\ calls' = Finished("ok")
             /\ companyData' = Just(data)
             /\ details' = detailsOf(data)
             /\ pc' = "age"
             /\ UNCHANGED response
    /\ UNCHANGED <<limVars, sessVars, cliVars, config, url, currentYear, sessionCache>>
    /\ UNCHANGED parseVars

\* getCompanyDetails returns: null after a throw ("throw") and after an answer
\* without elements ("empty"), else elements[0]
getCompanyDetails ==
    /\ pc = "companyWait"
    /\ \/ /\ \E r \in {"throw", "empty"} : calls' = Finished(r)
          /\ companyData' = Null
          /\ UNCHANGED details
       \/ \E data \in CompanyDataSet :
             /\ calls' = Finished("ok")
             /\ companyData' = Just(data)
             /\ details' = detailsOf(data)
    /\ pc' = "age"
    /\ UNCHANGED <<limVars, sessVars, cliVars, config, url, currentYear, sessionCache, response>>
    /\ UNCHANGED parseVars

\* new Date().getFullYear() - parseInt(String(companyFounded).slice(0, 4), 10)
\* under if (companyFounded)
companyAge(companyFounded, fullYear) ==
    IF FalsyNumber(companyFounded) THEN Null
    ELSE Just(fullYear - ParseInt(Slice(ToStr(companyFounded[1]), 1, 4)))

\* let companyAge ...; return res.json({ ..., current_company: { ... } })
ScreenRespond ==
    /\ pc = "age"
    /\ details' = [details EXCEPT !.age = companyAge(details.founded, currentYear)]
    /\ response' = ProfileResponse(Null,
                                   [name |-> currentCompany, founded |-> details.founded,
                                    age_years |-> companyAge(details.founded, currentYear),
                                    size |-> details.size, industry |-> details.industry,
                                    position_start |-> currentPositionStart])
    /\ pc' = "done"
    /\ UNCHANGED <<limVars, sessVars, cliVars, config, url, currentYear, calls, sessionCache, companyData>>
    /\ UNCHANGED parseVars

\* the next request reaches the handler: the module state (the configuration,
\* sessionCache) stays, the handler's locals are fresh
ScreenRequest ==
    /\ pc = "done"
    /\ Arrive
    /\ UNCHANGED <<limVars, sessVars, cliVars, config, sessionCache>>

NextScreen ==
    \/ ScreenValidate
    \/ ExaGetContents
    \/ ExaFails
    \/ ExaContent
    \/ ExaParseText
    \/ ExaBlock
    \/ ExaFilterEducation
    \/ ExaRespond
    \/ ScreenFallBack
    \/ buildSession
    \/ SessionResult
    \/ getLinkedInProfile
    \/ ProfileResult
    \/ ScreenPosition
    \/ ScreenFilterEducation
    \/ ScreenCompany
    \/ getCompanyDetails
    \/ ScreenRespond
    \/ ScreenRequest

SpecScreen == InitScreen /\ [][NextScreen]_vars

-----------------------------------------------------------------------------
(* Claims about the current company details *)

\* the requests of the kind sent so far
CallsOf(call) == {i \in DOMAIN calls : calls[i].call = call}

\* the company lookup threw or returned no elements
LookupFailed ==
    \E i \in CallsOf("li.company") : calls[i].result \in {"throw", "empty"}

\* the current position, the first current one of positions, has no universal name
NoUniversalName ==
    /\ \E k \in DOMAIN experiences : experiences[k].current
    /\ universalNameOf(positions[SourceOf(FirstCurrent)]) = Null

\* the structured path is past the company lookup without company data
EnrichmentUnavailable ==
    /\ source = "linkedin"
    /\ pc \in {"age", "done"}
    /\ LookupFailed \/ NoUniversalName

C16_Fields ==
    (EnrichmentUnavailable /\ pc = "done") =>
        /\ response # Null
        /\ response[1].status = 200
        /\ response[1].body.current_company.founded = Null
        /\ response[1].body.current_company.age_years = Null
        /\ response[1].body.current_company.size = Null
        /\ response[1].body.current_company.industry = Null
        /\ response[1].body.current_company.name = experiences[FirstCurrent].company
        /\ response[1].body.current_company.position_start
             = SourceStart(SourceOf(FirstCurrent))

\* the step the handler takes after such a lookup is its 200 answer
C16_Step ==
    (EnrichmentUnavailable /\ pc = "age") =>
        /\ pc' = "done"
        /\ response' # Null
        /\ response'[1].status = 200

C17_CompanyAge ==
    (response # Null /\ response[1].status = 200) =>
        /\ (response[1].body.current_company.age_years = Null)
             <=> (response[1].body.current_company.founded = Null)
        /\ response[1].body.current_company.founded # Null =>
             response[1].body.current_company.age_years
               = Just(currentYear - response[1].body.current_company.founded[1])

-----------------------------------------------------------------------------
(* Claims about the order of the sources *)

\* the requests to LinkedIn: session validation, profile, company
LinkedInCalls == {"li.me", "li.profile", "li.company"}

\* the url of the request passes both tests of the handler
ValidRequest == Trim(url) # "" /\ validateLinkedInUrl(Trim(url))

\* C18: with both EXA_API_KEY and LI_AT_COOKIE configured, a valid request
\* calls Exa before anything else, requests to LinkedIn are made only after the
\* Exa call has failed, and after an Exa call that succeeded there is no
\* request to LinkedIn and the response is the Exa result.
C18_ExaFirst ==
    (config.exa /\ config.liAt /\ ValidRequest) =>
        /\ pc \notin {"start", "exa"} => calls # <<>>
        /\ calls # <<>> => calls[1].call = "exa.getContents"
        /\ \A i \in DOMAIN calls :
              calls[i].call \in LinkedInCalls =>
                  /\ i > 1
                  /\ calls[1].result \in {"throw", "empty"}
        /\ (calls # <<>> /\ calls[1].result = "ok") =>
              /\ Len(calls) = 1
              /\ pc \in {"exaParse", "done"}
              /\ response # Null =>
                    /\ response[1].status = 200
                    /\ response[1].body.source = Just("exa")
                    /\ response[1].body.education = education
                    /\ response[1].body.experiences = experiences
                    /\ response[1].body.current_company.name = currentCompany

\* both sources were used: Exa threw, then the profile came from LinkedIn
C18_Witness ==
    /\ config.exa
    /\ config.liAt
    /\ Len(calls) >= 3
    /\ calls[1] = Call("exa.getContents", "throw")
    /\ calls[3] = Call("li.profile", "ok")
    /\ response # Null
    /\ response[1].status = 200

\* the fallback source failed: the session validation or the profile request
FallbackFailed(i) ==
    \/ calls[i].call = "li.me" /\ calls[i].result \notin {"pending", "200", "303"}
    \/ calls[i].call = "li.profile" /\ calls[i].result = "throw"

\* C19: while one request is handled there is at most one Exa getContents
\* call and at most one LinkedIn profile request, and a failure of the
\* fallback source is the last request made: the handler answers 500.
C19_NoRetries ==
    /\ Cardinality(CallsOf("exa.getContents")) <= 1
    /\ Cardinality(CallsOf("li.profile")) <= 1
    /\ Cardinality(CallsOf("li.me")) <= 1
    /\ \A i \in DOMAIN calls :
          FallbackFailed(i) =>
              /\ i = Len(calls)
              /\ pc = "done"
              /\ response # Null
              /\ response[1].status = 500

\* Exa returned no results and the profile request of the fallback threw
C19_Witness ==
    /\ Len(calls) >= 2
    /\ calls[1] = Call("exa.getContents", "empty")
    /\ calls[Len(calls)] = Call("li.profile", "throw")
    /\ pc = "done"

-----------------------------------------------------------------------------
(* The rate limiter in front of /screen: rateLimit({ windowMs, max }) keeps  *)
(* one count per client IP and window                                       *)

\* windowMs: 60 * 1000
windowMs == 60 * 1000

\* max: limit each IP to 30 requests per windowMs
max == 30

\* requests arrive at multiples of TickMs
TickMs == windowMs \div TicksPerWindow

TimeSet == {k * TickMs : k \in 0..MaxTicks}

InitLimiter ==
    /\ now = 0
    /\ totalHits = [ip \in IpSet |-> 0]
    /\ resetTime = [ip \in IpSet |-> Null]
    /\ passed = [ip \in IpSet |-> 0]
    /\ verdict = "none"
    /\ watch \in {Just([ip |-> ip, start |-> start, reached |-> 0]) :
                    ip \in IpSet, start \in TimeSet}
    /\ source = "none"
    /\ allEducation = <<>>
    /\ education = <<>>
    /\ eduDone = FALSE
    /\ expBlocks = <<>>
    /\ positions = <<>>
    /\ idx = 0
    /\ experiences = <<>>
    /\ currentCompany = Null
    /\ currentPositionStart = Null
    /\ currentCompanyUniversalName = Null
    /\ blockEntry = <<>>
    /\ doc = Null
    /\ text = ""
    /\ textDone = TRUE
    /\ ReqIdle

\* the request is one of the watched IP inside the watched period
Watched(ip) ==
    /\ watch[1].ip = ip
    /\ watch[1].start <= now
    /\ now < watch[1].start + windowMs

\* the limiter with the limit passed once more than max
LimiterRequestOffByOne(ip, expired, count) ==
    /\ count <= max + MaxRejected
    /\ totalHits' = [totalHits EXCEPT ![ip] = count]
    /\ resetTime' = IF expired THEN [resetTime EXCEPT ![ip] = Just(now + windowMs)]
                    ELSE resetTime
    /\ IF count > max + 1
       THEN /\ verdict' = "429"
            /\ UNCHANGED <<passed, watch>>
       ELSE /\ verdict' = "next"
            /\ passed' = [passed EXCEPT ![ip] = IF expired THEN 1 ELSE @ + 1]
            /\ watch' = IF Watched(ip)
                        THEN Just([watch[1] EXCEPT !.reached = @ + 1])
                        ELSE watch
    /\ UNCHANGED now
    /\ UNCHANGED <<source, eduVars, expVars, textVars, reqVars, sessVars, cliVars>>

\* app.use('/screen', limiter): the request is counted in the window of its
\* IP, a new window of windowMs starting when the last one has ended; up to
\* max requests of a window go on to the handler, the others are answered 429
LimiterRequest(ip, expired, count) ==
    /\ count <= max + MaxRejected
    /\ totalHits' = [totalHits EXCEPT ![ip] = count]
    /\ resetTime' = IF expired THEN [resetTime EXCEPT ![ip] = Just(now + windowMs)]
                    ELSE resetTime
    /\ IF count > max
       THEN /\ verdict' = "429"
            /\ UNCHANGED <<passed, watch>>
       ELSE /\ verdict' = "next"
            /\ passed' = [passed EXCEPT ![ip] = IF expired THEN 1 ELSE @ + 1]
            /\ watch' = IF Watched(ip)
                        THEN Just([watch[1] EXCEPT !.reached = @ + 1])
                        ELSE watch
    /\ UNCHANGED now
    /\ UNCHANGED <<source, eduVars, expVars, textVars, reqVars, sessVars, cliVars>>

\* the window of the IP has ended, or none has started
Expired(ip) == resetTime[ip] = Null \/ now >= resetTime[ip][1]

\* a POST /screen request of a client IP reaches the server
ScreenLimited ==
    \E ip \in IpSet :
        LimiterRequest(ip, Expired(ip), IF Expired(ip) THEN 1 ELSE totalHits[ip] + 1)

\* time passes
Tick ==
    /\ now < MaxTicks * TickMs
    /\ now' = now + TickMs
    /\ UNCHANGED <<totalHits, resetTime, passed, verdict, watch>>
    /\ UNCHANGED <<source, eduVars, expVars, textVars, reqVars, sessVars, cliVars>>

NextLimiter == ScreenLimited \/ Tick

SpecLimiter == InitLimiter /\ [][NextLimiter]_vars

-----------------------------------------------------------------------------
(* Claims about the rate limiter *)

-----------------------------------------------------------------------------
(* buildSession called by concurrent /screen requests with the cookie       *)
(* LI_AT_ENV: each call runs up to its await and, later, from it            *)

InitSessions ==
    /\ sessions = [r \in 1..MaxSessions |->
                     [pc |-> "session", client |-> Null, answer |-> Null]]
    /\ validations = 0
    /\ clients = 0
    /\ CliIdle
    /\ sessionCache = EmptyMap
    /\ config = [exa |-> FALSE, liAt |-> TRUE]
    /\ url = ""
    /\ currentYear = 0
    /\ pc = "idle"
    /\ calls = <<>>
    /\ companyData = Null
    /\ details = NoDetails
    /\ response = Null
    /\ source = "none"
    /\ allEducation = <<>>
    /\ education = <<>>
    /\ eduDone = FALSE
    /\ expBlocks = <<>>
    /\ positions = <<>>
    /\ idx = 0
    /\ experiences = <<>>
    /\ currentCompany = Null
    /\ currentPositionStart = Null
    /\ currentCompanyUniversalName = Null
    /\ blockEntry = <<>>
    /\ doc = Null
    /\ text = ""
    /\ textDone = TRUE
    /\ LimIdle

\* the variables the concurrent buildSession calls leave alone
handlerVars == <<config, url, currentYear, pc, calls, companyData, details, response>>

\* buildSession up to its await: const cached = sessionCache.get(liAt);
\* if (cached) return cached; else the request to /voyager/api/me is sent
SessionLookup(r) ==
    /\ sessions[r].pc = "session"
    /\ IF LiAt \in DOMAIN sessionCache
       THEN /\ sessions' = [sessions EXCEPT ![r].pc = "ready",
                                            ![r].client = Just(sessionCache[LiAt])]
            /\ UNCHANGED validations
       ELSE /\ sessions' = [sessions EXCEPT ![r].pc = "sessionWait"]
            /\ validations' = validations + 1
    /\ UNCHANGED <<sessionCache, clients>>
    /\ UNCHANGED <<source, eduVars, expVars, textVars, handlerVars, limVars, cliVars>>

\* buildSession from its await on: a throw for 301, 302 and every rejected
\* request; else axios.create, sessionCache.set(liAt, client), return client
SessionValidated(r) ==
    /\ sessions[r].pc = "sessionWait"
    /\ \E res \in MeResults :
          IF res \in {"200", "303"}
          THEN /\ clients' = clients + 1
               /\ sessionCache' = MapSet(sessionCache, LiAt, clients + 1)
               /\ sessions' = [sessions EXCEPT ![r].pc = "ready",
                                               ![r].client = Just(clients + 1),
                                               ![r].answer = Just(res)]
          ELSE /\ sessions' = [sessions EXCEPT ![r].pc = "failed",
                                               ![r].answer = Just(res)]
               /\ UNCHANGED <<sessionCache, clients>>
    /\ UNCHANGED validations
    /\ UNCHANGED <<source, eduVars, expVars, textVars, handlerVars, limVars, cliVars>>

NextSessions ==
    \E r \in 1..MaxSessions : SessionLookup(r) \/ SessionValidated(r)

SpecSessions == InitSessions /\ [][NextSessions]_vars

-----------------------------------------------------------------------------
(* Claims about the session cache *)

\* C21: however concurrent requests with the same cookie interleave, as long
\* as no validation fails at most one request to /voyager/api/me is sent and
\* at most one client is created, and every request that has its client has
\* the same one.
C21_OneSession ==
    (\A r \in DOMAIN sessions : sessions[r].pc # "failed") =>
        /\ validations <= 1
        /\ clients <= 1
        /\ \A r1, r2 \in DOMAIN sessions :
              (sessions[r1].pc = "ready" /\ sessions[r2].pc = "ready") =>
                  sessions[r1].client = sessions[r2].client

-----------------------------------------------------------------------------
(* Claims about the validation of the url *)

\* the length of the scheme the url starts with, 0 without http:// or https://
SchemeLen(u) ==
    IF StartsWithAt(u, 1, "https://") THEN 8
    ELSE IF StartsWithAt(u, 1, "http://") THEN 7 ELSE 0

\* the host is linkedin.com or one of its subdomains
LinkedInHost(host) ==
    \/ host = "linkedin.com"
    \/ /\ Len(host) > Len(".linkedin.com")
       /\ StartsWithAt(host, Len(host) - Len(".linkedin.com") + 1, ".linkedin.com")

\* a url with its scheme of n characters and the first "/" after it at k:
\* the host before k is LinkedIn's and the path from k is /in/ or /company/
LinkedInPath(u, n, k) ==
    /\ n > 0
    /\ k > 0
    /\ LinkedInHost(Slice(u, n + 1, k - 1))
    /\ StartsWithAt(u, k, "/in/") \/ StartsWithAt(u, k, "/company/")

\* the conditions on the trimmed url, read off the url itself
WellFormedUrl(u) ==
    /\ u # ""
    /\ Len(u) <= MaxUrlLength
    /\ LinkedInPath(u, SchemeLen(u), IndexOfFrom(u, "/", SchemeLen(u) + 1))

\* C22: once the handler is past its validation, a request whose trimmed url
\* is empty, longer than 500 characters, without http:// or https://, or not
\* a url of the LinkedIn domain with an /in/ or /company/ path has been
\* answered 400 and no data source has been contacted.
C22_UrlValidation ==
    (pc \notin {"idle", "start"} /\ ~WellFormedUrl(Trim(url))) =>
        /\ pc = "done"
        /\ response # Null
        /\ response[1].status = 400
        /\ calls = <<>>

-----------------------------------------------------------------------------
(* Claims about the order of the education list *)

\* every education of the profile has its end year
AllDated == allEducation # <<>> /\ \A i \in DOMAIN allEducation : allEducation[i].end # Null

\* C23: the education list of a profile response is ordered by date, most
\* recent first: its first entry ends no earlier than any education of the
\* profile, whatever the levels, and no entry ends before one that follows it.
C23_MostRecentFirst ==
    (response # Null /\ response[1].status = 200 /\ AllDated) =>
        /\ response[1].body.education # <<>>
        /\ \A i \in DOMAIN allEducation :
              response[1].body.education[1].end[1] >= allEducation[i].end[1]
        /\ \A i, j \in DOMAIN response[1].body.education :
              i < j => response[1].body.education[i].end[1]
                         >= response[1].body.education[j].end[1]

-----------------------------------------------------------------------------
(* Claims about the failures of the sources *)

\* C24: when the request to /voyager/api/me is answered with a redirect (a
\* 3xx status), with 401 or 403, or fails otherwise, no client is cached for
\* the cookie, no profile request follows, and the request is answered 500
\* with the error "Failed to initialize LinkedIn session".
C24_ValidationFailure ==
    \A i \in CallsOf("li.me") :
        calls[i].result \notin {"pending", "200"} =>
            /\ i = Len(calls)
            /\ LiAt \notin DOMAIN sessionCache
            /\ pc = "done"
            /\ response = ErrorResponse(500, "Failed to initialize LinkedIn session")

\* the Exa attempt of the request failed
ExaFailed ==
    \E i \in CallsOf("exa.getContents") : calls[i].result \in {"throw", "empty"}

\* a data source has succeeded for the request
SourceSucceeded ==
    \/ \E i \in CallsOf("exa.getContents") : calls[i].result = "ok"
    \/ \E i \in CallsOf("li.profile") : calls[i].result = "ok"

\* C25: without LI_AT_COOKIE no request to LinkedIn is ever made, and a valid
\* request that finds EXA_API_KEY unset or whose Exa attempt failed is
\* answered 500; a 200 profile response comes only after a data source has
\* succeeded for the request.
C25_NoSource ==
    /\ ~config.liAt =>
          /\ \A i \in DOMAIN calls : calls[i].call \notin LinkedInCalls
          /\ (ValidRequest /\ (~config.exa \/ ExaFailed)) =>
                /\ pc \in {"start", "li_at", "done"}
                /\ pc = "done" => response # Null /\ response[1].status = 500
    /\ (response # Null /\ response[1].status = 200) => SourceSucceeded

\* no cookie, and the Exa attempt threw: the 500 answer
C25_Witness ==
    /\ config.exa
    /\ ~config.liAt
    /\ calls = <<Call("exa.getContents", "throw")>>
    /\ response = ErrorResponse(500, "Exa AI failed")

-----------------------------------------------------------------------------
(* Claims about the responses of the handler *)

\* the places of the handler, in the order the control passes them
PcOrder ==
    <<"start", "exa", "exaWait", "exaParse", "li_at", "session", "sessionWait",
      "profile", "profileWait", "loops", "companyWait", "age", "done">>

PcRank(p) == CHOOSE i \in 1..Len(PcOrder) : PcOrder[i] = p

\* how far the handler is: its place, then the passes of its loops
HandlerSteps ==
    PcRank(pc) * (MaxBlocks + MaxPositions + 3)
      + idx + (IF textDone THEN 1 ELSE 0) + (IF eduDone THEN 1 ELSE 0)

\* a step of the handler is possible: ScreenValidate and ScreenRespond are
\* guarded by their place alone and ExaParseText by the text not being parsed
\* yet, the other steps by their own conditions
HandlerCanStep ==
    \/ pc \in {"start", "age"}
    \/ source = "exa" /\ ~textDone
    \/ ENABLED (\/ ExaGetContents \/ ExaFails \/ ExaContent
                \/ ExaBlock \/ ExaFilterEducation \/ ExaRespond
                \/ ScreenFallBack \/ buildSession \/ SessionResult
                \/ getLinkedInProfile \/ ProfileResult
                \/ ScreenPosition \/ ScreenFilterEducation \/ ScreenCompany
                \/ getCompanyDetails)

\* a request has its response exactly when its handler has returned, the
\* status is one of 400, 500 and 200, and a handler that has not returned
\* can take a step once its pending call has returned or failed
C26_Answered ==
    /\ (pc = "done") <=> (response # Null)
    /\ response # Null => response[1].status \in {400, 500, 200}
    /\ pc # "done" => HandlerCanStep

\* a step of a handler that has not returned moves it forward, and it sends
\* the response in the step in which it returns
C26_Step ==
    pc # "done" =>
        /\ HandlerSteps' > HandlerSteps
        /\ (response' # Null) <=> (pc' = "done")

-----------------------------------------------------------------------------
(* Claims about the two copies of the classifier *)

\* C27: the high-school classifier and the degree rank of the Exa path give
\* every education entry the result of the ones of the LinkedIn path, so that
\* the filtered and ordered list of a request is the one the other path
\* computes from the same entries.
C27_SameClassifier ==
    /\ \A i \in DOMAIN allEducation :
          /\ isHighSchoolOf("exa", allEducation[i]) = isHighSchoolOf("linkedin", allEducation[i])
          /\ getEducationRankOf("exa", allEducation[i])
               = getEducationRankOf("linkedin", allEducation[i])
    /\ eduDone =>
          /\ education = FilterAndRank("exa", allEducation)
          /\ education = FilterAndRank("linkedin", allEducation)

-----------------------------------------------------------------------------
(* Claims about the order of the experience entries *)

\* the blocks that have at least two non-blank lines, a first line of one of
\* the two forms and a line with a date range
EntryBlockSet ==
    {block \in DatedBlocks : Len(NonBlankLines(block)) >= 2 /\ FormTable[block] # Null}

\* the k-th of the blocks walked so far that are in EntryBlockSet
NthEntryBlock(k) ==
    CHOOSE b \in 1..idx :
        /\ expBlocks[b] \in EntryBlockSet
        /\ Cardinality({c \in 1..b : expBlocks[c] \in EntryBlockSet}) = k

\* C28: the experiences are in source order.  On the LinkedIn path the k-th
\* entry is that of the k-th position, one entry per position; on the
\* free-text path the k-th entry is that of the k-th block with at least two
\* non-blank lines, a matching first line and a matching date-range line,
\* and the other blocks have no entry.
C28_SourceOrder ==
    /\ source = "linkedin" =>
          /\ Len(experiences) = idx
          /\ \A k \in 1..idx :
                /\ experiences[k].company = Coalesce(positions[k].companyName, Null)
                /\ experiences[k].title = Coalesce(positions[k].title, Null)
    /\ source = "exa" =>
          /\ Len(experiences) = Cardinality({b \in 1..idx : expBlocks[b] \in EntryBlockSet})
          /\ \A k \in DOMAIN experiences :
                /\ experiences[k].title = Just(FormTable[expBlocks[NthEntryBlock(k)]][1].title)
                /\ experiences[k].company
                     = Just(FormTable[expBlocks[NthEntryBlock(k)]][1].company)
                /\ experiences[k].start
                     = Just(ParseInt(DateTable[expBlocks[NthEntryBlock(k)]].g2))

\* three blocks walked, the second without a date line: two entries, the
\* first block's before the third's
C28_Witness ==
    /\ source = "exa"
    /\ idx = 3
    /\ expBlocks[1] \in EntryBlockSet
    /\ expBlocks[2] \notin EntryBlockSet
    /\ expBlocks[3] \in EntryBlockSet
    /\ expBlocks[1] # expBlocks[3]
    /\ Len(experiences) = 2

-----------------------------------------------------------------------------
(* Claims about the content Exa returns *)

\* Exa returned a result for the request
ExaReturned == \E i \in CallsOf("exa.getContents") : calls[i].result = "ok"

\* the text of the result is empty, or has no section and no "###" line
NothingParseable ==
    /\ ExaReturned
    /\ doc # Null
    /\ doc[1].edu = Null
    /\ doc[1].exp = Null
    /\ doc[1].pre.lines = <<>>
    /\ doc[1].pre.blocks = <<>>

\* C29: when Exa returns a result the handler answers 200 with the record of
\* getProfileWithExa and makes no request to LinkedIn; when the text of the
\* result is empty or has nothing to parse, the record has education and
\* experiences empty and a null current company name; the requests to
\* LinkedIn of a request with Exa configured come after an Exa call that
\* threw or had no results.
C29_EmptyContent ==
    /\ ExaReturned =>
          /\ pc \in {"exaParse", "done"}
          /\ \A i \in DOMAIN calls : calls[i].call \notin LinkedInCalls
          /\ pc = "done" =>
                /\ response # Null
                /\ response[1].status = 200
                /\ response[1].body.source = Just("exa")
                /\ NothingParseable =>
                      /\ response[1].body.education = <<>>
                      /\ response[1].body.experiences = <<>>
                      /\ response[1].body.current_company.name = Null
    /\ (config.exa /\ \E i \in DOMAIN calls : calls[i].call \in LinkedInCalls) => ExaFailed

\* an empty text, with the cookie configured, answered 200
C29_Witness ==
    /\ NothingParseable
    /\ text = ""
    /\ config.liAt
    /\ pc = "done"
    /\ response # Null
    /\ response[1].status = 200

-----------------------------------------------------------------------------
(* The command-line screener: main, fetchProfile, getFoundedCrunchbase *)

\* process.argv[2]: missing, blank, or a profile URL
ArgvSet == {Null, Just("  "), Just("https://www.linkedin.com/in/jane"),
            Just(" https://www.linkedin.com/in/john ")}

\* process.env: a variable is unset (Null), empty, or has a value
EnvSet ==
    [LINKEDIN_USER : {Null, Just("jane@example.com")},
     LINKEDIN_PASS : {Null, Just(""), Just("secret")},
     CRUNCHBASE_API_KEY : {Null, Just("cb-key")}]

\* interface FetchResult: the error and the profile, each Null when absent;
\* of the profile, the company name of the first experience without an end
\* date (Null when there is none)
FetchResult(error, profile) == [error |-> error, profile |-> profile]
ProfileData(current) == [current |-> current]

\* what the helper process can have written to its standard output
ProfileAcme == "{\"profile\": {\"experience\": [{\"companyName\": \"Acme\"}]}}"
ProfileNone == "{\"profile\": {\"experience\": []}}"
ErrorLogin == "{\"error\": \"login failed\"}"
StdoutSet == {"", "Traceback (most recent call last)", ErrorLogin, "{}", ProfileAcme, ProfileNone}

\* how the helper process ends: normally, with a non-zero status, or killed
\* at the timeout
HelperOutcomes == [status : {"ok", "fail", "timeout"}, stdout : StdoutSet]

\* err.message of the error execSync or JSON.parse throws
ErrMessage == "Command failed"

\* JSON.parse on the texts above and on error messages: Null when it throws,
\* else the value
JSONParse(str) ==
    CASE str = ErrorLogin  -> Just(FetchResult(Just("login failed"), Null))
      [] str = "{}"        -> Just(FetchResult(Null, Null))
      [] str = ProfileAcme -> Just(FetchResult(Null, Just(ProfileData(Just("Acme")))))
      [] str = ProfileNone -> Just(FetchResult(Null, Just(ProfileData(Null))))
      [] OTHER             -> Null

\* the catch of fetchProfile: err.stdout?.toString() || err.message, parsed
\* if it parses, else the error record
fetchProfileCatch(errStdout) ==
    LET msg == IF FalsyString(errStdout) THEN ErrMessage ELSE errStdout[1]
    IN  IF JSONParse(msg) # Null THEN JSONParse(msg)[1] ELSE FetchResult(Just(msg), Null)

\* fetchProfile: the output parsed; execSync throwing (non-zero status or
\* timeout, with the output so far in err.stdout) and JSON.parse throwing
\* (no stdout on that error) both land in the catch
fetchProfile(outcome) ==
    IF outcome.status = "ok"
    THEN IF JSONParse(outcome.stdout) # Null
         THEN JSONParse(outcome.stdout)[1]
         ELSE fetchProfileCatch(Null)
    ELSE fetchProfileCatch(Just(outcome.stdout))

\* what the Crunchbase request can do: throw (curl fails, times out, or the
\* answer is not JSON), answer without an entity, answer with a founding date
CrunchbaseOutcomes == {"throw", "none", "2010-05-01"}

\* getFoundedCrunchbase after the test of the key: the catch, no founded_on,
\* parseInt(founded.slice(0, 4))
getFoundedCrunchbase(outcome) ==
    IF outcome \in {"throw", "none"} THEN Null ELSE Just(ParseInt(Slice(outcome, 1, 4)))

\* the Founded line: companyFounded ?? "-"
FoundedLine(companyFounded) == IF companyFounded = Null THEN Just(EmDash) ELSE companyFounded

CliExit(code) ==
    /\ cliPc' = "exit"
    /\ exitCode' = Just(code)

serverVars == <<source, eduVars, expVars, textVars, reqVars, limVars, sessVars>>

InitCli ==
    /\ argv \in ArgvSet
    /\ env \in EnvSet
    /\ cliPc = "main"
    /\ execs = <<>>
    /\ fetched = Null
    /\ shown = Null
    /\ exitCode = Null
    /\ source = "none"
    /\ allEducation = <<>>
    /\ education = <<>>
    /\ eduDone = FALSE
    /\ expBlocks = <<>>
    /\ positions = <<>>
    /\ idx = 0
    /\ experiences = <<>>
    /\ currentCompany = Null
    /\ currentPositionStart = Null
    /\ currentCompanyUniversalName = Null
    /\ blockEntry = <<>>
    /\ doc = Null
    /\ text = ""
    /\ textDone = TRUE
    /\ config = [exa |-> FALSE, liAt |-> FALSE]
    /\ url = ""
    /\ currentYear = 0
    /\ pc = "idle"
    /\ calls = <<>>
    /\ sessionCache = EmptyMap
    /\ companyData = Null
    /\ details = NoDetails
    /\ response = Null
    /\ SessIdle
    /\ LimIdle

\* main up to fetchProfile: the usage exit, the credentials exit, execSync
CliMain ==
    /\ cliPc = "main"
    /\ IF argv = Null \/ Trim(argv[1]) = ""
       THEN CliExit(1) /\ UNCHANGED execs
       ELSE IF FalsyString(env.LINKEDIN_USER) \/ FalsyString(env.LINKEDIN_PASS)
       THEN CliExit(1) /\ UNCHANGED execs
       ELSE /\ execs' = Append(execs, [cmd |-> "python3", outcome |-> Null])
            /\ cliPc' = "fetch"
            /\ UNCHANGED exitCode
    /\ UNCHANGED <<argv, env, fetched, shown>>
    /\ UNCHANGED serverVars

\* the helper ends; main from the result on: the error exit, the TypeError
\* of p.firstName on a missing profile caught by main().catch, no current
\* position, no key, or the Crunchbase request
CliFetched ==
    /\ cliPc = "fetch"
    /\ \E outcome \in HelperOutcomes :
          LET result == fetchProfile(outcome)
          IN  /\ fetched' = Just(result)
              /\ IF ~FalsyString(result.error) \/ result.profile = Null
                 THEN /\ execs' = [execs EXCEPT ![1].outcome = Just(outcome)]
                      /\ CliExit(1)
                      /\ UNCHANGED shown
                 ELSE IF result.profile[1].current = Null
                 THEN /\ execs' = [execs EXCEPT ![1].outcome = Just(outcome)]
                      /\ CliExit(0)
                      /\ UNCHANGED shown
                 ELSE IF FalsyString(env.CRUNCHBASE_API_KEY)
                 THEN /\ execs' = [execs EXCEPT ![1].outcome = Just(outcome)]
                      /\ shown' = FoundedLine(Null)
                      /\ CliExit(0)
                 ELSE /\ execs' = Append([execs EXCEPT ![1].outcome = Just(outcome)],
                                         [cmd |-> "curl", outcome |-> Null])
                      /\ cliPc' = "crunchbase"
                      /\ UNCHANGED <<shown, exitCode>>
    /\ UNCHANGED <<argv, env>>
    /\ UNCHANGED serverVars

\* the Crunchbase request ends; the rest of main only prints
CliCrunchbase ==
    /\ cliPc = "crunchbase"
    /\ \E outcome \in CrunchbaseOutcomes :
          /\ execs' = [execs EXCEPT ![2].outcome = Just(outcome)]
          /\ shown' = FoundedLine(getFoundedCrunchbase(outcome))
    /\ CliExit(0)
    /\ UNCHANGED <<argv, env, fetched>>
    /\ UNCHANGED serverVars

NextCli == CliMain \/ CliFetched \/ CliCrunchbase

SpecCli == InitCli /\ [][NextCli]_vars

-----------------------------------------------------------------------------
(* Claims about the failures of the command-line screener *)

\* the helper process has ended
HelperEnded == execs # <<>> /\ execs[1].outcome # Null

\* C30: the CLI exits with status 1 without starting the helper when the URL
\* argument is missing or LINKEDIN_USER or LINKEDIN_PASS is unset; it exits
\* with status 1 when the helper fails, times out, or returns an error field
\* or no profile; without CRUNCHBASE_API_KEY or with a failed Crunchbase
\* lookup the run does not fail and shows founded as absent.
C30_CliFailures ==
    /\ (argv = Null \/ env.LINKEDIN_USER = Null \/ env.LINKEDIN_PASS = Null) =>
          /\ execs = <<>>
          /\ cliPc = "exit" => exitCode = Just(1)
    /\ (/\ HelperEnded
        /\ \/ execs[1].outcome[1].status \in {"fail", "timeout"}
           \/ fetched[1].error # Null
           \/ fetched[1].profile = Null) =>
          exitCode = Just(1)
    /\ (/\ cliPc = "exit"
        /\ HelperEnded
        /\ execs[1].outcome[1].status = "ok"
        /\ fetched[1].error = Null
        /\ fetched[1].profile # Null
        /\ fetched[1].profile[1].current # Null
        /\ \/ env.CRUNCHBASE_API_KEY = Null
           \/ Len(execs) = 2 /\ execs[2].outcome = Just("throw")) =>
          /\ exitCode = Just(0)
          /\ shown = Just(EmDash)

====
